---- MODULE Spec2Model ----
(***************************************************************************)
(* State-machine model of the gfxstream component adapter of rutabaga_gfx  *)
(* (src/rutabaga_gfx/src/gfxstream.rs) and of the utility types it uses    *)
(* (src/rutabaga_gfx/src/rutabaga_utils.rs).                               *)
(*                                                                         *)
(* The native renderer behind the extern "C" surface is the environment:   *)
(* every status code it returns is a nondeterministic choice.  Each        *)
(* adapter operation is one action; the action records the operation, its  *)
(* result and the backend calls it made in `op`.                           *)
(*                                                                         *)
(* u32 flag words are modelled as the set of their set bit positions, so   *)
(* `a & b` is intersection, `a | b` is union and `x != 0` is `x # {}`.     *)
(***************************************************************************)
EXTENDS Integers, Sequences, FiniteSets, TLC

VARIABLES
    unstable,      \* cfg(gfxstream_unstable) of the build
    op,            \* the last adapter operation or backend callback
    contexts,      \* live GfxstreamContext values, by their ctx_id
    created,       \* fences whose creation took effect, by fence_id
    pending,       \* fence ids the backend accepted and has not signalled
    handlerCalls,  \* invocations of the fence handlers, oldest first
    restored,      \* live GfxstreamContext values built by restore_context, by ctx_id
    resources,     \* the RutabagaResource values the caller holds
    inflight,      \* the operation the device thread is inside, if any
    attached,      \* <<ctx_id, resource_id>> attachments the backend was told of
    instances      \* the Gfxstream::init calls so far and what became of each

vars == <<unstable, op, contexts, created, pending, handlerCalls,
          restored, resources, inflight, attached, instances>>

----------------------------------------------------------------------------
\* Bounds of the model

\* Number of fences whose creation takes effect in one behaviour.
MaxFences == 1

\* Longest error chain converted
MaxChain == 3

\* Number of Gfxstream::init calls in a run
MaxInits == 2

----------------------------------------------------------------------------
\* Flag words (bit positions) and other constants of rutabaga_utils.rs

RUTABAGA_FLAG_FENCE == {0}
RUTABAGA_FLAG_INFO_RING_IDX == {1}
RUTABAGA_FLAG_FENCE_HOST_SHAREABLE == {2}

RUTABAGA_IMPORT_FLAG_3D_INFO == {0}
RUTABAGA_IMPORT_FLAG_VULKAN_INFO == {1}
RUTABAGA_IMPORT_FLAG_RESOURCE_EXISTS == {30}

STREAM_RENDERER_IMPORT_FLAG_VULKAN_INFO == RUTABAGA_IMPORT_FLAG_VULKAN_INFO
STREAM_RENDERER_IMPORT_FLAG_RESOURCE_EXISTS == RUTABAGA_IMPORT_FLAG_RESOURCE_EXISTS

RUTABAGA_CAPSET_GFXSTREAM_VULKAN == 3
RUTABAGA_CAPSET_CROSS_DOMAIN == 5

RUTABAGA_DEBUG_ERROR == 1
RUTABAGA_DEBUG_INFO == 3

RUTABAGA_MAP_CACHE_CACHED == {0}
RUTABAGA_MAP_CACHE_WC == {0, 1}
RUTABAGA_MAP_ACCESS_MASK == {4, 5, 6, 7}
RUTABAGA_MAP_ACCESS_READ == {4}
RUTABAGA_MAP_ACCESS_WRITE == {5}
RUTABAGA_MAP_ACCESS_RW == {4, 5}

RUTABAGA_BLOB_MEM_GUEST == 1
RUTABAGA_BLOB_MEM_HOST3D_GUEST == 3
RUTABAGA_BLOB_FLAG_USE_MAPPABLE == {0}
RUTABAGA_BLOB_FLAG_USE_SHAREABLE == {1}

\* RutabagaComponentType as u8: Rutabaga2D = 0, VirglRenderer = 1, Gfxstream = 2
RutabagaComponentType_Gfxstream == 2

\* size_of::<u32>()
SizeOfU32 == 4

----------------------------------------------------------------------------
\* Results: RutabagaResult<T>, Option<T>, and a panic unwinding to the caller

Unit == [unit |-> TRUE]
None == [some |-> FALSE]
Some(v) == [some |-> TRUE, v |-> v]

\* RutabagaErrorKind values met in the adapter
ComponentError(ret) == [kind |-> "ComponentError", code |-> ret]
MappingFailed(ret) == [kind |-> "MappingFailed", code |-> ret]
InvalidCommandSize(len) == [kind |-> "InvalidCommandSize", len |-> len]
TryFromIntError == [kind |-> "TryFromIntError"]
NulError == [kind |-> "NulError"]
Unsupported == [kind |-> "Unsupported"]

Ok(v) == [tag |-> "Ok", val |-> v]
Err(e) == [tag |-> "Err", err |-> e]
Panic == [tag |-> "Panic"]
\* std::process::abort(): the process is gone
Abort == [tag |-> "Abort"]

IsOk(r) == r.tag = "Ok"
IsErr(r) == r.tag = "Err"
IsErrKind(r, kind) == r.tag = "Err" /\ r.err.kind = kind

\* Result::ok(): Some(value) on success, None on error
ResultOk(r) == IF IsOk(r) THEN Some(r.val) ELSE None

\* One call across the extern "C" surface
Call(fn, args, ret) == [fn |-> fn, args |-> args, ret |-> ret]

\* What an operation did: its result, the backend calls it made in order,
\* and the fences it handed to a fence handler before returning
Outcome(res, calls, handled) == [res |-> res, calls |-> calls, handled |-> handled]

\* renderer_utils::ret_to_res: zero is success, any other status is a
\* ComponentError carrying the status
ret_to_res(ret) == IF ret = 0 THEN Ok(Unit) ELSE Err(ComponentError(ret))

----------------------------------------------------------------------------
\* Buffer lengths (usize).  A length is held as two base-65536 limbs,
\* value = hi * 65536 + lo, so that lengths at and above 2^32 can be written.

USize(hi, lo) == [hi |-> hi, lo |-> lo]

\* len % m
USizeRem(len, m) == (((len.hi % m) * (65536 % m)) + (len.lo % m)) % m

\* usize -> u32 `try_into()` succeeds exactly when the value is below 2^32
FitsU32(len) == len.hi < 65536

----------------------------------------------------------------------------
\* GfxstreamContext

\* GfxstreamContext::submit_cmd (after a fault variant of it that forwards
\* buffers of any length), for a context with ctx_id `self_ctx_id` and a
\* command buffer of `len` bytes; `ret` is what the backend returns if called
submit_cmd_SkipSizeCheck(self_ctx_id, len, ret) ==
    IF ~FitsU32(len)
    THEN Outcome(Err(TryFromIntError), <<>>, <<>>)
    ELSE Outcome(ret_to_res(ret),
                 <<Call("stream_renderer_submit_cmd",
                        [ctx_id |-> self_ctx_id, cmd_size |-> len, num_in_fences |-> 0],
                        ret)>>,
                 <<>>)

submit_cmd(self_ctx_id, len, ret) ==
    IF USizeRem(len, SizeOfU32) # 0
    THEN Outcome(Err(InvalidCommandSize(len)), <<>>, <<>>)
    ELSE IF ~FitsU32(len)
    THEN Outcome(Err(TryFromIntError), <<>>, <<>>)
    ELSE Outcome(ret_to_res(ret),
                 <<Call("stream_renderer_submit_cmd",
                        [ctx_id |-> self_ctx_id, cmd_size |-> len, num_in_fences |-> 0],
                        ret)>>,
                 <<>>)

\* GfxstreamContext::export_fence: with cfg(gfxstream_unstable) it asks the
\* backend, without it the operation is unsupported
export_fence(fence_id, ret, stream_handle) ==
    IF unstable
    THEN LET c == Call("stream_renderer_export_fence", [fence_id |-> fence_id], ret)
         IN  IF ret # 0
             THEN Outcome(ret_to_res(ret), <<c>>, <<>>)
             ELSE Outcome(Ok(stream_handle), <<c>>, <<>>)
    ELSE Outcome(Err(Unsupported), <<>>, <<>>)

\* Fault variants of context_create_fence: never completing inline; completing
\* a ring-1 fence inline and also handing it to the backend; exporting on the
\* RUTABAGA_FLAG_FENCE bit; exporting a host-shareable ring-1 fence
context_create_fence_NoInline(fence, create_ret, export_ret, stream_handle) ==
    LET c == Call("stream_renderer_create_fence", [fence |-> fence], create_ret)
    IN  IF create_ret # 0
        THEN Outcome(ret_to_res(create_ret), <<c>>, <<>>)
        ELSE IF (fence.flags \cap RUTABAGA_FLAG_FENCE_HOST_SHAREABLE) # {}
        THEN LET e == export_fence(fence.fence_id, export_ret, stream_handle)
             IN  Outcome(IF IsOk(e.res) THEN Ok(Some(e.res.val)) ELSE e.res,
                         <<c>> \o e.calls, <<>>)
        ELSE Outcome(Ok(None), <<c>>, <<>>)

context_create_fence_InlineAndBackend(fence, create_ret, export_ret, stream_handle) ==
    LET o == context_create_fence_NoInline(fence, create_ret, export_ret, stream_handle)
    IN  IF fence.ring_idx = 1 THEN Outcome(o.res, o.calls, <<fence>>) ELSE o

context_create_fence_WrongFlag(fence, create_ret, export_ret, stream_handle) ==
    IF fence.ring_idx = 1
    THEN Outcome(Ok(None), <<>>, <<fence>>)
    ELSE LET c == Call("stream_renderer_create_fence", [fence |-> fence], create_ret)
         IN  IF create_ret # 0
             THEN Outcome(ret_to_res(create_ret), <<c>>, <<>>)
             ELSE IF (fence.flags \cap RUTABAGA_FLAG_FENCE) # {}
             THEN LET e == export_fence(fence.fence_id, export_ret, stream_handle)
                  IN  Outcome(IF IsOk(e.res) THEN Ok(Some(e.res.val)) ELSE e.res,
                              <<c>> \o e.calls, <<>>)
             ELSE Outcome(Ok(None), <<c>>, <<>>)

context_create_fence_InlineExports(fence, create_ret, export_ret, stream_handle) ==
    IF fence.ring_idx = 1 /\ (fence.flags \cap RUTABAGA_FLAG_FENCE_HOST_SHAREABLE) # {}
    THEN LET e == export_fence(fence.fence_id, export_ret, stream_handle)
         IN  Outcome(IF IsOk(e.res) THEN Ok(Some(e.res.val)) ELSE e.res,
                     e.calls, <<fence>>)
    ELSE IF fence.ring_idx = 1
    THEN Outcome(Ok(None), <<>>, <<fence>>)
    ELSE context_create_fence_NoInline(fence, create_ret, export_ret, stream_handle)

\* GfxstreamContext::context_create_fence
context_create_fence(fence, create_ret, export_ret, stream_handle) ==
    IF fence.ring_idx = 1
    THEN Outcome(Ok(None), <<>>, <<fence>>)
    ELSE LET c == Call("stream_renderer_create_fence", [fence |-> fence], create_ret)
         IN  IF create_ret # 0
             THEN Outcome(ret_to_res(create_ret), <<c>>, <<>>)
             ELSE IF (fence.flags \cap RUTABAGA_FLAG_FENCE_HOST_SHAREABLE) # {}
             THEN LET e == export_fence(fence.fence_id, export_ret, stream_handle)
                  IN  Outcome(IF IsOk(e.res) THEN Ok(Some(e.res.val)) ELSE e.res,
                              <<c>> \o e.calls, <<>>)
             ELSE Outcome(Ok(None), <<c>>, <<>>)

\* Drop for GfxstreamContext
drop_context_UnrefsResources(self_ctx_id) ==
    Outcome(Ok(Unit),
            <<Call("stream_renderer_context_destroy", [handle |-> self_ctx_id], 0),
              Call("stream_renderer_resource_unref", [res_handle |-> 7], 0)>>,
            <<>>)

drop_context_DestroysTwice(self_ctx_id) ==
    Outcome(Ok(Unit),
            <<Call("stream_renderer_context_destroy", [handle |-> self_ctx_id], 0),
              Call("stream_renderer_context_destroy", [handle |-> self_ctx_id], 0)>>,
            <<>>)

drop_context(self_ctx_id) ==
    Outcome(Ok(Unit),
            <<Call("stream_renderer_context_destroy", [handle |-> self_ctx_id], 0)>>,
            <<>>)

\* write_context_fence: the fence completion callback the backend invokes with
\* the cookie given at init; the cookie's fence handler is always set by init
\* A handler is what one call of its closure does: it returns or it panics
Returns == [panics |-> FALSE]
Panics == [panics |-> TRUE]

\* handler.call(value) inside a callback
handler_call(handler, value) ==
    IF handler.panics
    THEN Outcome(Panic, <<>>, <<>>)
    ELSE Outcome(Ok(Unit), <<>>, <<value>>)

\* The closure of a callback: the cookie must not be null, and its handler
\* for this callback is called if it has one
callback_body(cookie, handler, value) ==
    IF cookie.null
    THEN Outcome(Panic, <<>>, <<>>)
    ELSE IF handler.some
         THEN handler_call(handler.v, value)
         ELSE Outcome(Ok(Unit), <<>>, <<>>)

\* catch_unwind(closure).unwrap_or_else(|_| abort())
unwrap_or_abort(out) ==
    IF out.res = Panic
    THEN Outcome(Abort, out.calls, out.handled)
    ELSE out

write_context_fence_Unwinds(cookie, fence) ==
    callback_body(cookie, cookie.fence_handler, fence)

write_context_fence(cookie, fence) ==
    unwrap_or_abort(callback_body(cookie, cookie.fence_handler, fence))

gfxstream_debug_callback_SwallowsPanic(cookie, debug) ==
    LET out == callback_body(cookie, cookie.debug_handler, debug)
    IN  IF out.res = Panic THEN Outcome(Ok(Unit), <<>>, <<>>) ELSE out

gfxstream_debug_callback(cookie, debug) ==
    unwrap_or_abort(callback_body(cookie, cookie.debug_handler, debug))

\* The RutabagaCookie built by Gfxstream::init
RutabagaCookie ==
    [null |-> FALSE, fence_handler |-> Some(Returns), debug_handler |-> None]

----------------------------------------------------------------------------
\* Gfxstream (the component)

\* Gfxstream::create_fence
create_fence(fence, ret) ==
    Outcome(ret_to_res(ret),
            <<Call("stream_renderer_create_fence", [fence |-> fence], ret)>>,
            <<>>)

\* Fault variant of is_empty: empty only when every extent is zero
is_empty_AllZero(transfer) == transfer.w = 0 /\ transfer.h = 0 /\ transfer.d = 0

\* Transfer3D::is_empty
is_empty(transfer) == transfer.w = 0 \/ transfer.h = 0 \/ transfer.d = 0

\* VirglBox built from a Transfer3D
VirglBox(transfer) ==
    [x |-> transfer.x, y |-> transfer.y, z |-> transfer.z,
     w |-> transfer.w, h |-> transfer.h, d |-> transfer.d]

\* Gfxstream::transfer_write
transfer_write(ctx_id, resource, transfer, ret) ==
    IF is_empty(transfer)
    THEN Outcome(Ok(Unit), <<>>, <<>>)
    ELSE Outcome(ret_to_res(ret),
                 <<Call("stream_renderer_transfer_write_iov",
                        [handle |-> resource.resource_id, ctx_id |-> ctx_id,
                         level |-> transfer.level, stride |-> transfer.stride,
                         layer_stride |-> transfer.layer_stride,
                         box |-> VirglBox(transfer), offset |-> transfer.offset,
                         iovec_cnt |-> 0],
                        ret)>>,
                 <<>>)

\* Gfxstream::transfer_read; `buf` is Some(length) or None
transfer_read(ctx_id, resource, transfer, buf, ret) ==
    IF is_empty(transfer)
    THEN Outcome(Ok(Unit), <<>>, <<>>)
    ELSE Outcome(ret_to_res(ret),
                 <<Call("stream_renderer_transfer_read_iov",
                        [handle |-> resource.resource_id, ctx_id |-> ctx_id,
                         level |-> transfer.level, stride |-> transfer.stride,
                         layer_stride |-> transfer.layer_stride,
                         box |-> VirglBox(transfer), offset |-> transfer.offset,
                         iovec_cnt |-> IF buf.some THEN 1 ELSE 0],
                        ret)>>,
                 <<>>)

\* RutabagaResource as built by create_3d and by import
Resource3D_SharedMask(resource_id) ==
    [resource_id |-> resource_id, handle |-> None, blob |-> FALSE,
     blob_mem |-> 0, blob_flags |-> {}, map_info |-> None,
     info_2d |-> None, info_3d |-> None, vulkan_info |-> None,
     backing_iovecs |-> None,
     component_mask |-> {RutabagaComponentType_Gfxstream, 3},
     size |-> 0, mapping |-> None]

Resource3D_WithHandle(resource_id) ==
    [resource_id |-> resource_id,
     handle |-> Some([os_handle |-> 9, handle_type |-> 1]), blob |-> FALSE,
     blob_mem |-> 0, blob_flags |-> {}, map_info |-> None,
     info_2d |-> None, info_3d |-> None, vulkan_info |-> None,
     backing_iovecs |-> None,
     component_mask |-> {RutabagaComponentType_Gfxstream},
     size |-> 0, mapping |-> None]

Resource3D(resource_id) ==
    [resource_id |-> resource_id, handle |-> None, blob |-> FALSE,
     blob_mem |-> 0, blob_flags |-> {}, map_info |-> None,
     info_2d |-> None, info_3d |-> None, vulkan_info |-> None,
     backing_iovecs |-> None,
     component_mask |-> {RutabagaComponentType_Gfxstream},
     size |-> 0, mapping |-> None]

\* Gfxstream::create_3d
create_3d(resource_id, resource_create_3d, ret) ==
    LET c == Call("stream_renderer_resource_create",
                  [handle |-> resource_id, args |-> resource_create_3d, num_iovs |-> 0],
                  ret)
    IN  IF ret # 0
        THEN Outcome(ret_to_res(ret), <<c>>, <<>>)
        ELSE Outcome(Ok(Resource3D(resource_id)), <<c>>, <<>>)

\* Fault variant of import: a Resource is built whatever the flags say
import_IgnoresExists(resource_id, import_handle, import_data, ret) ==
    IF (import_data.flags \cap STREAM_RENDERER_IMPORT_FLAG_VULKAN_INFO) # {}
    THEN Outcome(Panic, <<>>, <<>>)
    ELSE LET c == Call("stream_renderer_import_resource",
                       [res_handle |-> resource_id, import_handle |-> import_handle,
                        flags |-> import_data.flags, info_3d |-> import_data.info_3d],
                       ret)
         IN  IF ret # 0
             THEN Outcome(ret_to_res(ret), <<c>>, <<>>)
             ELSE Outcome(Ok(Some(Resource3D(resource_id))), <<c>>, <<>>)

\* Gfxstream::import (cfg(gfxstream_unstable)); the failed assertion unwinds
import(resource_id, import_handle, import_data, ret) ==
    IF (import_data.flags \cap STREAM_RENDERER_IMPORT_FLAG_VULKAN_INFO) # {}
    THEN Outcome(Panic, <<>>, <<>>)
    ELSE LET c == Call("stream_renderer_import_resource",
                       [res_handle |-> resource_id, import_handle |-> import_handle,
                        flags |-> import_data.flags, info_3d |-> import_data.info_3d],
                       ret)
         IN  IF ret # 0
             THEN Outcome(ret_to_res(ret), <<c>>, <<>>)
             ELSE IF (import_data.flags \cap STREAM_RENDERER_IMPORT_FLAG_RESOURCE_EXISTS) # {}
             THEN Outcome(Ok(None), <<c>>, <<>>)
             ELSE Outcome(Ok(Some(Resource3D(resource_id))), <<c>>, <<>>)

\* Gfxstream::attach_backing
attach_backing(resource_id, vecs, ret) ==
    Outcome(ret_to_res(ret),
            <<Call("stream_renderer_resource_attach_iov",
                   [res_handle |-> resource_id, num_iovs |-> Len(vecs)], ret)>>,
            <<>>)

\* Gfxstream::detach_backing
detach_backing_ReportsStatus(resource_id) ==
    Outcome(ret_to_res(-22),
            <<Call("stream_renderer_resource_detach_iov", [res_handle |-> resource_id], -22)>>,
            <<>>)

detach_backing(resource_id) ==
    Outcome(Ok(Unit),
            <<Call("stream_renderer_resource_detach_iov", [res_handle |-> resource_id], 0)>>,
            <<>>)

\* Gfxstream::unref_resource
unref_resource(resource_id) ==
    Outcome(Ok(Unit),
            <<Call("stream_renderer_resource_unref", [res_handle |-> resource_id], 0)>>,
            <<>>)

\* Gfxstream::resource_flush
resource_flush(resource) ==
    Outcome(Ok(Unit),
            <<Call("stream_renderer_flush", [res_handle |-> resource.resource_id], 0)>>,
            <<>>)

\* Fault variant of map_info: the reported word is passed on as it is
map_info_Reported(resource_id, ret, reported) ==
    LET c == Call("stream_renderer_resource_map_info", [res_handle |-> resource_id], ret)
    IN  IF ret # 0
        THEN Outcome(ret_to_res(ret), <<c>>, <<>>)
        ELSE Outcome(Ok(reported), <<c>>, <<>>)

\* Gfxstream::map_info; `reported` is the flag word the backend writes
map_info(resource_id, ret, reported) ==
    LET c == Call("stream_renderer_resource_map_info", [res_handle |-> resource_id], ret)
    IN  IF ret # 0
        THEN Outcome(ret_to_res(ret), <<c>>, <<>>)
        ELSE Outcome(Ok(reported \cup RUTABAGA_MAP_ACCESS_RW), <<c>>, <<>>)

\* Gfxstream::vulkan_info; `reported` is the identity the backend writes
vulkan_info(resource_id, ret, reported) ==
    LET c == Call("stream_renderer_vulkan_info", [res_handle |-> resource_id], ret)
    IN  IF ret # 0
        THEN Outcome(ret_to_res(ret), <<c>>, <<>>)
        ELSE Outcome(Ok([memory_idx |-> reported.memory_index,
                         device_id |-> [device_uuid |-> reported.device_uuid,
                                        driver_uuid |-> reported.driver_uuid]]),
                     <<c>>, <<>>)

\* Gfxstream::export_blob; `stream_handle` is the handle the backend writes
export_blob(resource_id, ret, stream_handle) ==
    LET c == Call("stream_renderer_export_blob", [res_handle |-> resource_id], ret)
    IN  IF ret # 0
        THEN Outcome(ret_to_res(ret), <<c>>, <<>>)
        ELSE Outcome(Ok([os_handle |-> stream_handle.os_handle,
                         handle_type |-> stream_handle.handle_type]),
                     <<c>>, <<>>)

\* Fault variant of create_blob: a failed export fails the creation
create_blob_NeedsExport(ctx_id, resource_id, resource_create_blob, iovec_opt, handle_opt, ret, q) ==
    LET c == Call("stream_renderer_create_blob",
                  [ctx_id |-> ctx_id, res_handle |-> resource_id,
                   create_blob |-> resource_create_blob,
                   num_iovs |-> IF iovec_opt.some THEN Len(iovec_opt.v) ELSE 0,
                   handle |-> handle_opt],
                  ret)
        e == export_blob(resource_id, q.export_ret, q.stream_handle)
    IN  IF ret # 0
        THEN Outcome(ret_to_res(ret), <<c>>, <<>>)
        ELSE IF IsErr(e.res)
        THEN Outcome(e.res, <<c>> \o e.calls, <<>>)
        ELSE LET m == map_info(resource_id, q.map_info_ret, q.map_info)
                 v == vulkan_info(resource_id, q.vulkan_info_ret, q.vulkan_info)
             IN  Outcome(Ok([resource_id |-> resource_id,
                             handle |-> ResultOk(e.res),
                             blob |-> TRUE,
                             blob_mem |-> resource_create_blob.blob_mem,
                             blob_flags |-> resource_create_blob.blob_flags,
                             map_info |-> ResultOk(m.res),
                             info_2d |-> None, info_3d |-> None,
                             vulkan_info |-> ResultOk(v.res),
                             backing_iovecs |-> iovec_opt,
                             component_mask |-> {RutabagaComponentType_Gfxstream},
                             size |-> resource_create_blob.size,
                             mapping |-> None]),
                         <<c>> \o e.calls \o m.calls \o v.calls, <<>>)

\* Gfxstream::create_blob.  `q` holds what the backend answers to the three
\* follow-up queries: their statuses and the values they write.
create_blob(ctx_id, resource_id, resource_create_blob, iovec_opt, handle_opt, ret, q) ==
    LET c == Call("stream_renderer_create_blob",
                  [ctx_id |-> ctx_id, res_handle |-> resource_id,
                   create_blob |-> resource_create_blob,
                   num_iovs |-> IF iovec_opt.some THEN Len(iovec_opt.v) ELSE 0,
                   handle |-> handle_opt],
                  ret)
    IN  IF ret # 0
        THEN Outcome(ret_to_res(ret), <<c>>, <<>>)
        ELSE LET e == export_blob(resource_id, q.export_ret, q.stream_handle)
                 m == map_info(resource_id, q.map_info_ret, q.map_info)
                 v == vulkan_info(resource_id, q.vulkan_info_ret, q.vulkan_info)
             IN  Outcome(Ok([resource_id |-> resource_id,
                             handle |-> ResultOk(e.res),
                             blob |-> TRUE,
                             blob_mem |-> resource_create_blob.blob_mem,
                             blob_flags |-> resource_create_blob.blob_flags,
                             map_info |-> ResultOk(m.res),
                             info_2d |-> None, info_3d |-> None,
                             vulkan_info |-> ResultOk(v.res),
                             backing_iovecs |-> iovec_opt,
                             component_mask |-> {RutabagaComponentType_Gfxstream},
                             size |-> resource_create_blob.size,
                             mapping |-> None]),
                         <<c>> \o e.calls \o m.calls \o v.calls, <<>>)

\* Gfxstream::map; `mapping` is the pointer and size the backend writes
map(resource_id, ret, mapping) ==
    LET c == Call("stream_renderer_resource_map", [res_handle |-> resource_id], ret)
    IN  IF ret # 0
        THEN Outcome(Err(MappingFailed(ret)), <<c>>, <<>>)
        ELSE Outcome(Ok([ptr |-> mapping.ptr, size |-> mapping.size]), <<c>>, <<>>)

\* Fault variant of unmap: the backend's status is dropped
unmap_DropsStatus(resource_id, ret) ==
    Outcome(Ok(Unit),
            <<Call("stream_renderer_resource_unmap", [res_handle |-> resource_id], ret)>>,
            <<>>)

\* Gfxstream::unmap
unmap(resource_id, ret) ==
    Outcome(ret_to_res(ret),
            <<Call("stream_renderer_resource_unmap", [res_handle |-> resource_id], ret)>>,
            <<>>)

\* Gfxstream::create_context
create_context_ValueOnFailure(ctx_id, context_init, context_name, ret) ==
    LET name == IF context_name.some /\ context_name.v # "" THEN context_name.v
                ELSE "gpu_renderer"
        c == Call("stream_renderer_context_create",
                  [handle |-> ctx_id, name |-> name, context_init |-> context_init],
                  ret)
    IN  Outcome(Ok([ctx_id |-> ctx_id]), <<c>>, <<>>)

create_context(ctx_id, context_init, context_name, ret) ==
    LET name == IF context_name.some /\ context_name.v # "" THEN context_name.v
                ELSE "gpu_renderer"
        c == Call("stream_renderer_context_create",
                  [handle |-> ctx_id, name |-> name, context_init |-> context_init],
                  ret)
    IN  IF ret # 0
        THEN Outcome(ret_to_res(ret), <<c>>, <<>>)
        ELSE Outcome(Ok([ctx_id |-> ctx_id]), <<c>>, <<>>)

\* Gfxstream::suspend and Gfxstream::resume (cfg(gfxstream_unstable))
suspend(ret) ==
    Outcome(ret_to_res(ret), <<Call("stream_renderer_suspend", Unit, ret)>>, <<>>)

resume(ret) ==
    Outcome(ret_to_res(ret), <<Call("stream_renderer_resume", Unit, ret)>>, <<>>)

\* Gfxstream::snapshot and Gfxstream::restore (cfg(gfxstream_unstable)):
\* CString::new fails on a directory name holding a NUL byte
snapshot(dir_has_nul, ret) ==
    IF dir_has_nul
    THEN Outcome(Err(NulError), <<>>, <<>>)
    ELSE Outcome(ret_to_res(ret), <<Call("stream_renderer_snapshot", Unit, ret)>>, <<>>)

restore(dir_has_nul, ret) ==
    IF dir_has_nul
    THEN Outcome(Err(NulError), <<>>, <<>>)
    ELSE Outcome(ret_to_res(ret), <<Call("stream_renderer_restore", Unit, ret)>>, <<>>)

----------------------------------------------------------------------------
\* Context snapshots: GfxstreamContextSnapshot as JSON text.  A byte string is
\* a sequence of one-character strings.

IoError == [kind |-> "IoError"]
Internal == [kind |-> "Internal"]
SnapshotError(msg) == [kind |-> "SnapshotError", msg |-> msg]

\* One layer of an anyhow::Error chain: a RutabagaErrorKind given as context,
\* or any other error or message
KindLayer(kind) == [is_kind |-> TRUE, kind |-> kind]
OtherLayer(msg) == [is_kind |-> FALSE, msg |-> msg]

from_anyhow_RootMost(chain) ==
    LET ks == {i \in 1..Len(chain) : chain[i].is_kind}
    IN  IF ks = {} THEN Internal
        ELSE chain[CHOOSE i \in ks : \A j \in ks : i >= j].kind

\* From<anyhow::Error> for RutabagaError: downcast_ref finds the outermost
\* RutabagaErrorKind of the chain (outermost layer first); Internal if none
from_anyhow(chain) ==
    LET ks == {i \in 1..Len(chain) : chain[i].is_kind}
    IN  IF ks = {} THEN Internal
        ELSE chain[CHOOSE i \in ks : \A j \in ks : i <= j].kind

InvalidComponent == [kind |-> "InvalidComponent"]
InvalidIovec == [kind |-> "InvalidIovec"]

\* RutabagaError { kind, context }
RutabagaError(kind, context) == [kind |-> kind, context |-> context]

\* From<RutabagaErrorKind> for RutabagaError
RutabagaError_from_kind(kind) == RutabagaError(kind, None)

RutabagaError_from_anyhow_DropsContext(value) == RutabagaError(from_anyhow(value), None)

\* From<anyhow::Error> for RutabagaError: the kind downcast_ref finds, and
\* the whole error as context
RutabagaError_from_anyhow(value) == RutabagaError(from_anyhow(value), Some(value))

DigitChars == <<"0", "1", "2", "3", "4", "5", "6", "7", "8", "9">>
IsDigit(ch) == \E d \in 1..10 : DigitChars[d] = ch
DigitOf(ch) == (CHOOSE d \in 1..10 : DigitChars[d] = ch) - 1

\* Decimal text of a u32, as serde_json's integer formatting writes it
RECURSIVE itoa(_)
itoa(n) ==
    IF n < 10 THEN <<DigitChars[n + 1]>>
    ELSE itoa(n \div 10) \o <<DigitChars[(n % 10) + 1]>>

FieldName == <<"c", "t", "x", "_", "i", "d">>

\* serde_json::to_writer of a GfxstreamContextSnapshot: {"ctx_id":<decimal>}
to_writer(value) ==
    <<"{", "\"">> \o FieldName \o <<"\"", ":">> \o itoa(value.ctx_id) \o <<"}">>

\* GfxstreamContext::snapshot: writing into a Vec cannot fail
context_snapshot(self_ctx_id) ==
    Outcome(Ok(to_writer([ctx_id |-> self_ctx_id])), <<>>, <<>>)

\* The character at position i, "" past the end
At(s, i) == IF i >= 1 /\ i <= Len(s) THEN s[i] ELSE ""

\* JSON whitespace is skipped between tokens
RECURSIVE SkipWs(_, _)
SkipWs(s, i) == IF At(s, i) \in {" ", "\n", "\t", "\r"} THEN SkipWs(s, i + 1) ELSE i

ParseFail == [ok |-> FALSE]
ParseOk(val, next) == [ok |-> TRUE, val |-> val, next |-> next]

\* Folds the digits from position i on into `acc`, a value in two base-65536
\* limbs; hi saturates at 65536, which marks a value above u32::MAX
RECURSIVE ParseDigits(_, _, _)
ParseDigits(s, i, acc) ==
    IF ~IsDigit(At(s, i)) THEN ParseOk(acc, i)
    ELSE LET t == acc.lo * 10 + DigitOf(s[i])
             hi == acc.hi * 10 + t \div 65536
         IN  ParseDigits(s, i + 1,
                         USize(IF hi > 65536 THEN 65536 ELSE hi, t % 65536))

\* A u32 field value at position i: an unsigned integer without leading
\* zero, fraction or exponent, and not above u32::MAX
ParseU32(s, i) ==
    IF ~IsDigit(At(s, i)) THEN ParseFail
    ELSE LET n == IF s[i] = "0" THEN ParseOk(USize(0, 0), i + 1)
                  ELSE ParseDigits(s, i, USize(0, 0))
         IN  IF IsDigit(At(s, n.next)) \/ At(s, n.next) \in {".", "e", "E"}
             THEN ParseFail
             ELSE IF ~FitsU32(n.val) THEN ParseFail
             ELSE ParseOk(n.val.hi * 65536 + n.val.lo, n.next)

\* The closing quote of the string whose text starts at i (0 if there is
\* none); the strings met here hold no escape
RECURSIVE StringEnd(_, _)
StringEnd(s, i) ==
    IF i > Len(s) THEN 0
    ELSE IF s[i] = "\"" THEN i
    ELSE StringEnd(s, i + 1)

\* The position after the value of a field that is not ctx_id, which serde
\* ignores (0 if malformed); such values are numbers or strings here
SkipValue(s, i) ==
    IF At(s, i) = "\""
    THEN LET e == StringEnd(s, i + 1) IN IF e = 0 THEN 0 ELSE e + 1
    ELSE LET d == IF At(s, i) = "-" THEN i + 1 ELSE i
             n == ParseDigits(s, d, USize(0, 0))
         IN  IF n.next = d THEN 0 ELSE n.next

\* The members of a JSON object from position i on, up to its closing brace:
\* ctx_id must occur exactly once
RECURSIVE ParseMembers(_, _, _, _)
ParseMembers(s, i, seen, first) ==
    LET j == SkipWs(s, i)
    IN  IF At(s, j) = "}"
        THEN IF seen.some THEN ParseOk(seen.v, j + 1) ELSE ParseFail
        ELSE LET k == IF first THEN j
                      ELSE IF At(s, j) = "," THEN SkipWs(s, j + 1) ELSE 0
                 e == StringEnd(s, k + 1)
                 c == SkipWs(s, e + 1)
                 v == SkipWs(s, c + 1)
             IN  IF k = 0 \/ At(s, k) # "\"" \/ e = 0 \/ At(s, c) # ":"
                 THEN ParseFail
                 ELSE IF SubSeq(s, k + 1, e - 1) = FieldName
                 THEN IF seen.some THEN ParseFail
                      ELSE LET n == ParseU32(s, v)
                           IN  IF ~n.ok THEN ParseFail
                               ELSE ParseMembers(s, n.next, Some(n.val), FALSE)
                 ELSE LET g == SkipValue(s, v)
                      IN  IF g = 0 THEN ParseFail
                          ELSE ParseMembers(s, g, seen, FALSE)

\* serde_json::from_reader::<GfxstreamContextSnapshot>: a JSON object with the
\* field ctx_id, or a one-element JSON array, and nothing but whitespace
\* after it
from_reader(s) ==
    LET i == SkipWs(s, 1)
        r == IF At(s, i) = "{" THEN ParseMembers(s, i + 1, None, TRUE)
             ELSE IF At(s, i) = "["
             THEN LET n == ParseU32(s, SkipWs(s, i + 1))
                  IN  IF ~n.ok THEN ParseFail
                      ELSE IF At(s, SkipWs(s, n.next)) # "]" THEN ParseFail
                      ELSE ParseOk(n.val, SkipWs(s, n.next) + 1)
             ELSE ParseFail
    IN  IF ~r.ok THEN ParseFail
        ELSE IF SkipWs(s, r.next) <= Len(s) THEN ParseFail
        ELSE r

\* Fault variant of restore_context: the parsed id is dropped
restore_context_DefaultId(snapshot_bytes) ==
    LET r == from_reader(snapshot_bytes)
    IN  IF ~r.ok
        THEN Outcome(Err(from_anyhow(<<KindLayer(IoError), OtherLayer("serde_json")>>)),
                     <<>>, <<>>)
        ELSE Outcome(Ok([ctx_id |-> 0]), <<>>, <<>>)

\* Gfxstream::restore_context (cfg(gfxstream_unstable)): a parse error is
\* given the context RutabagaErrorKind::IoError and converted; no backend call
restore_context(snapshot_bytes) ==
    LET r == from_reader(snapshot_bytes)
    IN  IF ~r.ok
        THEN Outcome(Err(from_anyhow(<<KindLayer(IoError), OtherLayer("serde_json")>>)),
                     <<>>, <<>>)
        ELSE Outcome(Ok([ctx_id |-> r.val]), <<>>, <<>>)

\* GfxstreamContext::attach and GfxstreamContext::detach: the backend calls
\* return nothing
context_attach(self_ctx_id, resource) ==
    Outcome(Ok(Unit),
            <<Call("stream_renderer_ctx_attach_resource",
                   [ctx_id |-> self_ctx_id, res_handle |-> resource.resource_id], 0)>>,
            <<>>)

context_detach(self_ctx_id, resource) ==
    Outcome(Ok(Unit),
            <<Call("stream_renderer_ctx_detach_resource",
                   [ctx_id |-> self_ctx_id, res_handle |-> resource.resource_id], 0)>>,
            <<>>)

----------------------------------------------------------------------------
\* Resources as the caller of the component holds them

InvalidRutabagaHandle == [kind |-> "InvalidRutabagaHandle"]

ResourceIdsOf(rs) == {r.resource_id : r \in rs}

\* The resources of `rs` still live in the backend after `calls`:
\* stream_renderer_resource_unref destroys the resource it names
AfterUnrefs(rs, calls) ==
    {r \in rs : \A i \in 1..Len(calls) :
                   ~ (/\ calls[i].fn = "stream_renderer_resource_unref"
                      /\ calls[i].args.res_handle = r.resource_id)}

\* The attachments the backend holds after `calls`: ctx_attach_resource adds
\* one, ctx_detach_resource removes one, and destroying a context or a
\* resource removes those it takes part in
AttachedAfter(att, calls) ==
    LET Has(fn, args) ==
            \E i \in 1..Len(calls) : calls[i].fn = fn /\ calls[i].args = args
        Pair(p) == [ctx_id |-> p[1], res_handle |-> p[2]]
        added == {<<calls[i].args.ctx_id, calls[i].args.res_handle>> :
                    i \in {j \in 1..Len(calls) :
                             calls[j].fn = "stream_renderer_ctx_attach_resource"}}
    IN  {p \in att \cup added :
            /\ ~ Has("stream_renderer_ctx_detach_resource", Pair(p))
            /\ ~ Has("stream_renderer_context_destroy", [handle |-> p[1]])
            /\ ~ Has("stream_renderer_resource_unref", [res_handle |-> p[2]])}

\* The dispatcher's record of a resource after a successful attach_backing
\* and after detach_backing
with_backing(resource, vecs) == [resource EXCEPT !.backing_iovecs = Some(vecs)]
without_backing(resource) == [resource EXCEPT !.backing_iovecs = None]

\* The dispatcher's export of a resource's handle: the handle the resource
\* carries, or an invalid-handle error when it carries none
export_handle(resource) ==
    IF resource.handle.some
    THEN Outcome(Ok(resource.handle.v), <<>>, <<>>)
    ELSE Outcome(Err(InvalidRutabagaHandle), <<>>, <<>>)

----------------------------------------------------------------------------
\* Life of the Gfxstream component

\* Gfxstream::init: the cookie is boxed, its address and the callbacks are
\* put in the parameters and stream_renderer_init is called; the
\* Gfxstream returned owns the cookie.  CString::new(f).unwrap() panics on
\* a feature string with a NUL in it.
init(gfxstream_features, debug_handler, ret) ==
    LET cookie == [RutabagaCookie EXCEPT !.debug_handler = debug_handler]
        params == {"USER_DATA", "RENDERER_FLAGS", "FENCE_CALLBACK", "WIN0_WIDTH",
                   "WIN0_HEIGHT"}
                      \cup (IF debug_handler.some THEN {"DEBUG_CALLBACK"} ELSE {})
                      \cup (IF gfxstream_features.some THEN {"RENDERER_FEATURES"} ELSE {})
        c == Call("stream_renderer_init", [params |-> params], ret)
    IN  IF gfxstream_features.some /\ gfxstream_features.v.has_nul
        THEN Outcome(Panic, <<>>, <<>>)
        ELSE IF ret # 0
        THEN Outcome(ret_to_res(ret), <<c>>, <<>>)
        ELSE Outcome(Ok([cookie |-> cookie]), <<c>>, <<>>)

drop_gfxstream_CookieFirst == <<"drop_cookie", "stream_renderer_teardown">>

\* Dropping a Gfxstream, in the order things happen: Drop::drop calls
\* stream_renderer_teardown, then the field _cookie is dropped and the box
\* freed
drop_gfxstream == <<"stream_renderer_teardown", "drop_cookie">>

----------------------------------------------------------------------------
\* MemoryMapping

SpecViolation(msg) == [kind |-> "SpecViolation", msg |-> msg]
NixError(errno) == [kind |-> "NixError", errno |-> errno]

\* The ProtFlags for the access bits of the map_info word `info`, None for
\* any other value of map_info & RUTABAGA_MAP_ACCESS_MASK
ProtOf(info) ==
    LET access == info \cap RUTABAGA_MAP_ACCESS_MASK
    IN  IF access = RUTABAGA_MAP_ACCESS_READ THEN Some({"PROT_READ"})
        ELSE IF access = RUTABAGA_MAP_ACCESS_WRITE THEN Some({"PROT_WRITE"})
        ELSE IF access = RUTABAGA_MAP_ACCESS_RW THEN Some({"PROT_READ", "PROT_WRITE"})
        ELSE None

from_safe_descriptor_MapsZeroSize(size, info, mmap_ret) ==
    IF ~ ProtOf(info).some
    THEN Outcome(Err(SpecViolation("incorrect access flags")), <<>>, <<>>)
    ELSE LET c == Call("mmap", [length |-> size, prot |-> ProtOf(info).v,
                                flags |-> "MAP_SHARED", offset |-> 0], mmap_ret)
         IN  IF IsErr(mmap_ret)
             THEN Outcome(Err(NixError(mmap_ret.err)), <<c>>, <<>>)
             ELSE Outcome(Ok([addr |-> mmap_ret.val, size |-> size]), <<c>>, <<>>)

\* MemoryMapping::from_safe_descriptor; `mmap_ret` is what mmap answers if
\* it is called
from_safe_descriptor(size, info, mmap_ret) ==
    IF ~ ProtOf(info).some
    THEN Outcome(Err(SpecViolation("incorrect access flags")), <<>>, <<>>)
    ELSE IF size # USize(0, 0)
    THEN LET c == Call("mmap", [length |-> size, prot |-> ProtOf(info).v,
                                flags |-> "MAP_SHARED", offset |-> 0], mmap_ret)
         IN  IF IsErr(mmap_ret)
             THEN Outcome(Err(NixError(mmap_ret.err)), <<c>>, <<>>)
             ELSE Outcome(Ok([addr |-> mmap_ret.val, size |-> size]), <<c>>, <<>>)
    ELSE Outcome(Err(SpecViolation("zero size mapping")), <<>>, <<>>)

----------------------------------------------------------------------------
\* Capability sets

\* get_capset_info: version and size start at 0 and are what
\* stream_renderer_get_cap_set leaves in them; `answer` is what the backend
\* writes, None when it writes nothing
get_capset_info(capset_id, answer) ==
    LET version == IF answer.some THEN answer.v.max_ver ELSE 0
        size == IF answer.some THEN answer.v.max_size ELSE 0
    IN  Outcome(Ok(<<version, size>>),
                <<Call("stream_renderer_get_cap_set", [set |-> capset_id], 0)>>,
                <<>>)

get_capset_SizedByVersion(capset_id, version, answer, fill) ==
    LET info == get_capset_info(capset_id, answer)
        buf == [i \in 1..version |-> fill]
    IN  Outcome(Ok(buf),
                info.calls \o <<Call("stream_renderer_fill_caps",
                                     [set |-> capset_id, version |-> version], 0)>>,
                <<>>)

\* get_capset: a zeroed buffer of the max_size get_capset_info gives, which
\* stream_renderer_fill_caps then writes; `fill` is the byte it writes
get_capset(capset_id, version, answer, fill) ==
    LET info == get_capset_info(capset_id, answer)
        max_size == info.res.val[2]
        zeroed == [i \in 1..max_size |-> 0]
        buf == [i \in 1..Len(zeroed) |-> fill]
    IN  Outcome(Ok(buf),
                info.calls \o <<Call("stream_renderer_fill_caps",
                                     [set |-> capset_id, version |-> version], 0)>>,
                <<>>)

----------------------------------------------------------------------------
\* Inputs of the operations and answers of the backend

\* Status codes the backend returns: success and two failures
Rets == {0, -22, 7}

CtxIds == {3, 5}
ResourceIds == {7, 8}

\* Command buffer lengths: 0, 4, 6, 13, 2^32 - 4, 2^32, 2^32 + 3
Lens == {USize(0, 0), USize(0, 4), USize(0, 6), USize(0, 13),
         USize(65535, 65532), USize(65536, 0), USize(65536, 3)}

FenceFlagWords == {RUTABAGA_FLAG_FENCE \cup RUTABAGA_FLAG_INFO_RING_IDX,
                   RUTABAGA_FLAG_FENCE \cup RUTABAGA_FLAG_INFO_RING_IDX
                       \cup RUTABAGA_FLAG_FENCE_HOST_SHAREABLE}
RingIdxs == {0, 1, 2}

Transfers == [x : {0}, y : {0}, z : {0}, w : {0, 4}, h : {0, 4}, d : {0, 1},
              level : {0}, stride : {0}, layer_stride : {0}, offset : {0, 64}]

ImportFlagWords == SUBSET (RUTABAGA_IMPORT_FLAG_3D_INFO
                           \cup RUTABAGA_IMPORT_FLAG_VULKAN_INFO
                           \cup RUTABAGA_IMPORT_FLAG_RESOURCE_EXISTS)

\* Flag words the backend reports for a blob: a cache type alone, or a cache
\* type with read access
ReportedMapInfos == {RUTABAGA_MAP_CACHE_CACHED,
                     RUTABAGA_MAP_CACHE_WC \cup RUTABAGA_MAP_ACCESS_READ}

StreamHandle == [os_handle |-> 9, handle_type |-> 1]
StreamVulkanInfo == [memory_index |-> 1, device_uuid |-> "device", driver_uuid |-> "driver"]

BlobQueryAnswers ==
    [export_ret : {0, -22}, stream_handle : {StreamHandle},
     map_info_ret : {0, -22}, map_info : ReportedMapInfos,
     vulkan_info_ret : {0, -22}, vulkan_info : {StreamVulkanInfo}]

ResourceCreateBlobs ==
    [blob_mem : {RUTABAGA_BLOB_MEM_HOST3D_GUEST},
     blob_flags : {RUTABAGA_BLOB_FLAG_USE_MAPPABLE},
     blob_id : {0}, size : {16384}]

\* Blob requests that differ in memory kind, flags and size
CreateBlobRequests ==
    ResourceCreateBlobs \cup
    {[blob_mem |-> RUTABAGA_BLOB_MEM_GUEST,
      blob_flags |-> RUTABAGA_BLOB_FLAG_USE_MAPPABLE \cup RUTABAGA_BLOB_FLAG_USE_SHAREABLE,
      blob_id |-> 0, size |-> 4096]}

----------------------------------------------------------------------------
\* The state machine

Init ==
    /\ unstable \in BOOLEAN
    /\ op = [name |-> "init", arg |-> Unit, res |-> Ok(Unit), calls |-> <<>>,
             handled |-> <<>>]
    /\ contexts = {}
    /\ created = <<>>
    /\ pending = {}
    /\ handlerCalls = <<>>
    /\ restored = {}
    /\ resources = {}
    /\ inflight = None
    /\ attached = {}
    /\ instances = <<>>

\* The process was aborted: nothing runs any more
Aborted == op.res.tag = "Abort"

\* The operation `name` ran with `arg` and ended as `out`
Step(name, arg, out) ==
    /\ ~Aborted
    /\ op' = [name |-> name, arg |-> arg, res |-> out.res, calls |-> out.calls,
              handled |-> out.handled]

\* The state only the operations of later sections touch
others == <<restored, resources, inflight, attached, instances>>

\* The device thread is inside no adapter operation
DeviceIdle == ~ inflight.some

\* The backend accepted a fence in one of `calls`
BackendAcceptedFence(calls) ==
    \E i \in 1..Len(calls) :
        calls[i].fn = "stream_renderer_create_fence" /\ calls[i].ret = 0

\* Bookkeeping of a fence creation that ended as `out`: the handler calls it
\* made, and the fence the backend now holds
FenceEffects(by, fence, out) ==
    /\ handlerCalls' = handlerCalls \o
           [i \in 1..Len(out.handled) |-> [fence |-> out.handled[i], by |-> by]]
    /\ IF BackendAcceptedFence(out.calls) \/ Len(out.handled) > 0
       THEN /\ created' = Append(created, [fence |-> fence, by |-> by])
            /\ pending' = IF BackendAcceptedFence(out.calls)
                          THEN pending \cup {fence.fence_id} ELSE pending
       ELSE UNCHANGED <<created, pending>>

CreateContext ==
    \E ctx_id \in CtxIds \ contexts, name \in {None, Some("test")}, ret \in Rets :
        LET out == create_context(ctx_id, 5, name, ret)
        IN  /\ DeviceIdle
            /\ Step("create_context", [ctx_id |-> ctx_id, context_name |-> name], out)
            /\ contexts' = IF IsOk(out.res) THEN contexts \cup {out.res.val.ctx_id}
                           ELSE contexts
            /\ UNCHANGED <<unstable, created, pending, handlerCalls, others>>

DropContext ==
    \E c \in contexts :
        /\ Step("drop_context",
                [ctx_id |-> c, had_attached |-> {p[2] : p \in {q \in attached : q[1] = c}}],
                drop_context(c))
        /\ contexts' = contexts \ {c}
        /\ resources' = AfterUnrefs(resources, drop_context(c).calls)
        /\ attached' = AttachedAfter(attached, drop_context(c).calls)
        /\ UNCHANGED <<unstable, instances, created, pending, handlerCalls, restored, inflight>>

SubmitCmd ==
    \E c \in contexts, len \in Lens, ret \in Rets :
        /\ Step("submit_cmd", [ctx_id |-> c, len |-> len], submit_cmd(c, len, ret))
        /\ UNCHANGED <<unstable, contexts, created, pending, handlerCalls, others>>

ContextCreateFence ==
    /\ Len(created) < MaxFences
    /\ \E c \in contexts, flags \in FenceFlagWords, ring \in RingIdxs,
          create_ret \in Rets, export_ret \in Rets :
        LET fence == [flags |-> flags, fence_id |-> Len(created) + 1,
                      ctx_id |-> c, ring_idx |-> ring]
            out == context_create_fence(fence, create_ret, export_ret, StreamHandle)
        IN  /\ Step("context_create_fence", [fence |-> fence], out)
            /\ FenceEffects("context_create_fence", fence, out)
            /\ UNCHANGED <<unstable, contexts, others>>

CreateFence ==
    /\ Len(created) < MaxFences
    /\ \E flags \in FenceFlagWords, ring \in RingIdxs, ret \in Rets :
        LET fence == [flags |-> flags, fence_id |-> Len(created) + 1,
                      ctx_id |-> 0, ring_idx |-> ring]
            out == create_fence(fence, ret)
        IN  /\ Step("create_fence", [fence |-> fence], out)
            /\ FenceEffects("create_fence", fence, out)
            /\ UNCHANGED <<unstable, contexts, others>>

BackendFenceCallback_WaitsForDevice ==
    /\ DeviceIdle
    /\ \E id \in pending :
        LET out == write_context_fence(RutabagaCookie, created[id].fence)
        IN  /\ Step("write_context_fence", [fence |-> created[id].fence], out)
            /\ handlerCalls' = handlerCalls \o
                   [i \in 1..Len(out.handled) |->
                        [fence |-> out.handled[i], by |-> "write_context_fence"]]
            /\ pending' = pending \ {id}
            /\ UNCHANGED <<unstable, contexts, created, others>>

\* The backend signals a fence it holds: it calls write_context_fence once,
\* with the cookie of init and the fence it was given
BackendFenceCallback ==
    \E id \in pending :
        LET out == write_context_fence(RutabagaCookie, created[id].fence)
        IN  /\ Step("write_context_fence", [fence |-> created[id].fence], out)
            /\ handlerCalls' = handlerCalls \o
                   [i \in 1..Len(out.handled) |->
                        [fence |-> out.handled[i], by |-> "write_context_fence"]]
            /\ pending' = pending \ {id}
            /\ UNCHANGED <<unstable, contexts, created, others>>

\* The adapter's own state, which the operations below leave as it is
adapter == <<unstable, contexts, created, pending, handlerCalls,
            restored, resources, inflight, attached, instances>>

TransferWrite ==
    \E ctx_id \in {0, 3}, r \in ResourceIds, t \in Transfers, ret \in Rets :
        /\ Step("transfer_write", [ctx_id |-> ctx_id, resource_id |-> r, transfer |-> t],
                  transfer_write(ctx_id, Resource3D(r), t, ret))
        /\ UNCHANGED adapter

TransferRead ==
    \E ctx_id \in {0, 3}, r \in ResourceIds, t \in Transfers,
       buf \in {None, Some(64)}, ret \in Rets :
        /\ Step("transfer_read",
                  [ctx_id |-> ctx_id, resource_id |-> r, transfer |-> t, buf |-> buf],
                  transfer_read(ctx_id, Resource3D(r), t, buf, ret))
        /\ UNCHANGED adapter

Create3D ==
    \E r \in ResourceIds, ret \in Rets :
        /\ Step("create_3d", [resource_id |-> r],
                  create_3d(r, [target |-> 2, width |-> 64, height |-> 64], ret))
        /\ UNCHANGED adapter

CreateBlob ==
    \E r \in ResourceIds, rcb \in CreateBlobRequests,
       iovec_opt \in {None, Some(<<[base |-> 4096, len |-> 16384]>>)},
       ret \in Rets, q \in BlobQueryAnswers :
        /\ Step("create_blob",
                  [resource_id |-> r, resource_create_blob |-> rcb, iovec_opt |-> iovec_opt,
                   reported_map_info |-> q.map_info],
                  create_blob(0, r, rcb, iovec_opt, None, ret, q))
        /\ UNCHANGED adapter

Import ==
    /\ unstable
    /\ \E r \in ResourceIds, flags \in ImportFlagWords, ret \in Rets :
        LET data == [flags |-> flags,
                     info_3d |-> [width |-> 64, height |-> 64, drm_fourcc |-> 875713112]]
        IN  /\ Step("import", [resource_id |-> r, import_data |-> data],
                    import(r, [os_handle |-> 9, handle_type |-> 2], data, ret))
            /\ UNCHANGED adapter

AttachBacking ==
    \E r \in ResourceIds, ret \in Rets :
        /\ Step("attach_backing", [resource_id |-> r],
                  attach_backing(r, <<[base |-> 4096, len |-> 16384]>>, ret))
        /\ UNCHANGED adapter

DetachBacking ==
    \E r \in ResourceIds :
        /\ Step("detach_backing", [resource_id |-> r], detach_backing(r))
        /\ UNCHANGED adapter

UnrefResource ==
    \E r \in ResourceIds :
        /\ Step("unref_resource", [resource_id |-> r], unref_resource(r))
        /\ UNCHANGED adapter

ResourceFlush ==
    \E r \in ResourceIds :
        /\ Step("resource_flush", [resource_id |-> r], resource_flush(Resource3D(r)))
        /\ UNCHANGED adapter

Map ==
    \E r \in ResourceIds, ret \in Rets :
        /\ Step("map", [resource_id |-> r],
                  map(r, ret, [ptr |-> 65536, size |-> 16384]))
        /\ UNCHANGED adapter

Unmap ==
    \E r \in ResourceIds, ret \in Rets :
        /\ Step("unmap", [resource_id |-> r], unmap(r, ret))
        /\ UNCHANGED adapter

Suspend ==
    /\ unstable
    /\ \E ret \in Rets :
        /\ Step("suspend", Unit, suspend(ret))
        /\ UNCHANGED adapter

Resume ==
    /\ unstable
    /\ \E ret \in Rets :
        /\ Step("resume", Unit, resume(ret))
        /\ UNCHANGED adapter

Snapshot ==
    /\ unstable
    /\ \E nul \in BOOLEAN, ret \in Rets :
        /\ Step("snapshot", [dir_has_nul |-> nul], snapshot(nul, ret))
        /\ UNCHANGED adapter

Restore ==
    /\ unstable
    /\ \E nul \in BOOLEAN, ret \in Rets :
        /\ Step("restore", [dir_has_nul |-> nul], restore(nul, ret))
        /\ UNCHANGED adapter

\* Capset ids asked for, one of them unknown to the backend, and what the
\* backend writes for a capset
CapsetIds == {RUTABAGA_CAPSET_GFXSTREAM_VULKAN, RUTABAGA_CAPSET_CROSS_DOMAIN, 99}
CapsetAnswers ==
    {None} \cup {Some(a) : a \in [max_ver : {1, 2}, max_size : {0, 1, 20}]}

GetCapsetInfo ==
    \E id \in CapsetIds, answer \in CapsetAnswers :
        /\ Step("get_capset_info", [capset_id |-> id, answer |-> answer],
                get_capset_info(id, answer))
        /\ UNCHANGED adapter

GetCapset ==
    \E id \in CapsetIds, version \in {0, 1, 2}, answer \in CapsetAnswers,
       fill \in {0, 255} :
        /\ Step("get_capset", [capset_id |-> id, version |-> version, answer |-> answer],
                get_capset(id, version, answer, fill))
        /\ UNCHANGED adapter

\* Error chains, outermost layer first: a root cause with contexts added to
\* it, each a RutabagaErrorKind or a plain message
RECURSIVE ChainsOfLen(_)
ChainsOfLen(n) ==
    LET Layers == {KindLayer(InvalidComponent), KindLayer(InvalidIovec),
                   OtherLayer("test error"), OtherLayer("context")}
    IN  IF n = 0 THEN {<<>>}
        ELSE {<<l>> \o c : l \in Layers, c \in ChainsOfLen(n - 1)}

Chains == UNION {ChainsOfLen(n) : n \in 1..MaxChain}

\* map_err(|e| e.into()) on an Err holding an anyhow::Error
ConvertAnyhow ==
    \E chain \in Chains :
        /\ Step("from_anyhow", [chain |-> chain],
                Outcome(Err(RutabagaError_from_anyhow(chain)), <<>>, <<>>))
        /\ UNCHANGED adapter

\* map_err(|e| e.into()) on an Err holding a bare RutabagaErrorKind
ConvertKind ==
    \E kind \in {InvalidComponent, InvalidIovec, Internal, IoError} :
        /\ Step("from_kind", [kind |-> kind],
                Outcome(Err(RutabagaError_from_kind(kind)), <<>>, <<>>))
        /\ UNCHANGED adapter

\* Conversions of errors into RutabagaError
NextError ==
    \/ ConvertAnyhow
    \/ ConvertKind

SpecError == Init /\ [][NextError]_vars

\* Sizes 0, 1, 4096 and 2^32, and map_info words over the cache bits 0 and 1
\* and the access bits 4, 5 and 6
MappingSizes == {USize(0, 0), USize(0, 1), USize(0, 4096), USize(65536, 0)}
MapInfoWords == SUBSET {0, 1, 4, 5, 6}

FromSafeDescriptor ==
    \E size \in MappingSizes, info \in MapInfoWords,
       mmap_ret \in {Ok(8192), Err("ENOMEM")} :
        /\ Step("from_safe_descriptor", [size |-> size, map_info |-> info],
                from_safe_descriptor(size, info, mmap_ret))
        /\ UNCHANGED adapter

\* Mappings made from descriptors
NextMapping ==
    \/ FromSafeDescriptor

SpecMapping == Init /\ [][NextMapping]_vars

\* Gfxstream::init is called; a Gfxstream exists from then on if it returned
\* one, and the cookie is freed on return if it did not
GfxstreamInit ==
    /\ Len(instances) < MaxInits
    /\ \E features \in {None, Some([has_nul |-> FALSE]), Some([has_nul |-> TRUE])},
          debug_handler \in {None, Some(Returns)}, ret \in Rets :
        LET out == init(features, debug_handler, ret)
        IN  /\ Step("init", [gfxstream_features |-> features,
                             debug_handler |-> debug_handler], out)
            /\ instances' = Append(instances,
                   [ok |-> IsOk(out.res),
                    cookie |-> IF IsOk(out.res) THEN "alive" ELSE "freed",
                    debug |-> debug_handler.some,
                    dropped |-> FALSE, todo |-> <<>>, teardowns |-> 0, torn |-> FALSE])
            /\ UNCHANGED <<unstable, contexts, created, pending, handlerCalls, restored,
                           resources, inflight, attached>>

\* A Gfxstream that exists is dropped, one step of drop_gfxstream at a time;
\* a teardown tears the backend down for every instance
GfxstreamDrop ==
    \E i \in 1..Len(instances) :
        LET inst == instances[i]
            todo == IF inst.dropped THEN inst.todo ELSE drop_gfxstream
            calls == IF Head(todo) = "stream_renderer_teardown"
                     THEN <<Call("stream_renderer_teardown", Unit, 0)>> ELSE <<>>
        IN  /\ inst.ok
            /\ IF inst.dropped THEN inst.todo # <<>>
               ELSE \A j \in 1..Len(instances) : instances[j].todo = <<>>
            /\ Step("drop_gfxstream", [instance |-> i, event |-> Head(todo)],
                    Outcome(Ok(Unit), calls, <<>>))
            /\ instances' =
                   [j \in 1..Len(instances) |->
                       LET torn == instances[j].torn \/ Len(calls) > 0
                       IN  IF j # i THEN [instances[j] EXCEPT !.torn = torn]
                           ELSE [inst EXCEPT
                                   !.dropped = TRUE,
                                   !.todo = Tail(todo),
                                   !.torn = torn,
                                   !.teardowns = @ + Len(calls),
                                   !.cookie = IF Head(todo) = "drop_cookie"
                                              THEN "freed" ELSE @]]
            /\ UNCHANGED <<unstable, contexts, created, pending, handlerCalls, restored,
                           resources, inflight, attached>>

\* Between an init that succeeded and the next teardown the backend enters a
\* callback with the cookie of that init; what a callback does with a freed
\* cookie is undefined
LifetimeCallback ==
    \E i \in 1..Len(instances), debug \in BOOLEAN :
        LET inst == instances[i]
            cookie == [RutabagaCookie EXCEPT
                         !.debug_handler = IF inst.debug THEN Some(Returns) ELSE None]
            fence == [flags |-> RUTABAGA_FLAG_FENCE, fence_id |-> i, ctx_id |-> 0,
                      ring_idx |-> 0]
            message == [debug_type |-> RUTABAGA_DEBUG_INFO, message |-> "frame"]
            defined == IF debug THEN gfxstream_debug_callback(cookie, message)
                       ELSE write_context_fence(cookie, fence)
        IN  /\ inst.ok
            /\ ~ inst.torn
            /\ debug => inst.debug
            /\ \E out \in IF inst.cookie = "alive" THEN {defined}
                           ELSE {defined, Outcome(Abort, <<>>, <<>>),
                                 Outcome(Ok(Unit), <<>>, <<>>)} :
                   Step(IF debug THEN "gfxstream_debug_callback" ELSE "write_context_fence",
                        [instance |-> i, cookie_state |-> inst.cookie], out)
            /\ UNCHANGED adapter

\* Initialization, callbacks and teardown of the component
NextLifetime ==
    \/ GfxstreamInit
    \/ LifetimeCallback
    \/ GfxstreamDrop

SpecLifetime == Init /\ [][NextLifetime]_vars

-----------------------------------------------------------------------------
\* The x86_64 device tree: the chosen node
\*
\* u64 and usize values are written in the limbs of USize; a u32 is a value
\* whose hi limb is below 65536.

\* `x as u32`: the low 32 bits
AsU32(x) == USize(x.hi % 65536, x.lo)

\* a + b without loss
WideAdd(a, b) ==
    USize(a.hi + b.hi + ((a.lo + b.lo) \div 65536), (a.lo + b.lo) % 65536)

\* The properties of a node, by name
NoProps == [name \in {} |-> Unit]
set_prop(node, name, value) ==
    [n \in DOMAIN node \cup {name} |-> IF n = name THEN value ELSE node[n]]

\* create_chosen_node; the result is the chosen node it leaves.  The u32
\* addition panics on overflow in a build with overflow checks and wraps in a
\* build without.
create_chosen_node(initrd, overflow_checks) ==
    IF initrd.some
    THEN LET initrd_start == AsU32(initrd.v.addr)
             sum == WideAdd(initrd_start, AsU32(initrd.v.size))
             initrd_end == AsU32(sum)
         IN  IF ~FitsU32(sum) /\ overflow_checks
             THEN Outcome(Panic, <<>>, <<>>)
             ELSE Outcome(Ok(set_prop(set_prop(NoProps, "linux,initrd-start", initrd_start),
                                      "linux,initrd-end", initrd_end)),
                          <<>>, <<>>)
    ELSE Outcome(Ok(NoProps), <<>>, <<>>)

\* Guest addresses: 0, 4096, 1 MiB, 2^32 - 4096, 2^32, 2^32 + 1 MiB, and
\* initrd sizes: 0, 1, 4096, 64 KiB, 2^32 - 1, 2^32, 2^32 + 4096
InitrdAddrs == {USize(0, 0), USize(0, 4096), USize(16, 0), USize(65535, 61440),
                USize(65536, 0), USize(65552, 0)}
InitrdSizes == {USize(0, 0), USize(0, 1), USize(0, 4096), USize(1, 0),
                USize(65535, 65535), USize(65536, 0), USize(65536, 4096)}

CreateChosenNode ==
    \E initrd \in {None} \cup {Some([addr |-> a, size |-> z]) :
                                   a \in InitrdAddrs, z \in InitrdSizes},
       overflow_checks \in BOOLEAN :
        /\ Step("create_chosen_node",
                [initrd |-> initrd, overflow_checks |-> overflow_checks],
                create_chosen_node(initrd, overflow_checks))
        /\ UNCHANGED adapter

NextFdt ==
    \/ CreateChosenNode

SpecFdt == Init /\ [][NextFdt]_vars

\* Snapshot byte strings the caller may hold from an earlier run
WellFormedSnapshots ==
    {\* {"ctx_id":4096}
     <<"{", "\"", "c", "t", "x", "_", "i", "d", "\"", ":", "4", "0", "9", "6", "}">>,
     \* {"ctx_id":2147483647}
     <<"{", "\"", "c", "t", "x", "_", "i", "d", "\"", ":", "2", "1", "4", "7", "4", "8", "3", "6", "4", "7", "}">>,
     \*  {"ctx_id" : 7 }\n
     <<" ", "{", "\"", "c", "t", "x", "_", "i", "d", "\"", " ", ":", " ", "7", " ", "}", "\n">>,
     \* [12]
     <<"[", "1", "2", "]">>}

\* Byte strings that are no context snapshot
MalformedSnapshots ==
    {\* 
     <<>>,
     \* {"ctx_id":3
     <<"{", "\"", "c", "t", "x", "_", "i", "d", "\"", ":", "3">>,
     \* {}
     <<"{", "}">>,
     \* {"id":1}
     <<"{", "\"", "i", "d", "\"", ":", "1", "}">>,
     \* {"ctx_id":-1}
     <<"{", "\"", "c", "t", "x", "_", "i", "d", "\"", ":", "-", "1", "}">>,
     \* {"ctx_id":4294967296}
     <<"{", "\"", "c", "t", "x", "_", "i", "d", "\"", ":", "4", "2", "9", "4", "9", "6", "7", "2", "9", "6", "}">>,
     \* {"ctx_id":03}
     <<"{", "\"", "c", "t", "x", "_", "i", "d", "\"", ":", "0", "3", "}">>,
     \* {"ctx_id":3}x
     <<"{", "\"", "c", "t", "x", "_", "i", "d", "\"", ":", "3", "}", "x">>,
     \* {"ctx_id":3,"ctx_id":5}
     <<"{", "\"", "c", "t", "x", "_", "i", "d", "\"", ":", "3", ",", "\"", "c", "t", "x", "_", "i", "d", "\"", ":", "5", "}">>,
     \* {"ctx_id":"3"}
     <<"{", "\"", "c", "t", "x", "_", "i", "d", "\"", ":", "\"", "3", "\"", "}">>}

StoredSnapshots == WellFormedSnapshots \cup MalformedSnapshots

\* The bytes of the snapshot just taken, if the last operation took one
FreshSnapshot ==
    IF op.name = "context_snapshot" /\ IsOk(op.res) THEN {op.res.val} ELSE {}

\* GfxstreamContext::snapshot on a live context, created or restored
ContextSnapshot ==
    \E c \in contexts \cup restored :
        /\ Step("context_snapshot", [ctx_id |-> c], context_snapshot(c))
        /\ UNCHANGED adapter

\* Gfxstream::restore_context on the bytes of the snapshot just taken or on
\* stored bytes; the caller holds at most one restored context per ctx_id
RestoreContext ==
    /\ unstable
    /\ \E bytes \in FreshSnapshot \cup StoredSnapshots :
        LET out == restore_context(bytes)
            taken_from == IF bytes \in FreshSnapshot THEN Some(op.arg.ctx_id) ELSE None
        IN  /\ IsOk(out.res) => out.res.val.ctx_id \notin restored
            /\ Step("restore_context", [snapshot |-> bytes, taken_from |-> taken_from], out)
            /\ restored' = IF IsOk(out.res) THEN restored \cup {out.res.val.ctx_id}
                           ELSE restored
            /\ UNCHANGED <<unstable, instances, contexts, created, pending, handlerCalls,
                           resources, inflight, attached>>

\* Drop of a restored context
DropRestored ==
    \E c \in restored :
        /\ Step("drop_context",
                [ctx_id |-> c, had_attached |-> {p[2] : p \in {q \in attached : q[1] = c}}],
                drop_context(c))
        /\ restored' = restored \ {c}
        /\ resources' = AfterUnrefs(resources, drop_context(c).calls)
        /\ attached' = AttachedAfter(attached, drop_context(c).calls)
        /\ UNCHANGED <<unstable, instances, contexts, created, pending, handlerCalls, inflight>>

\* GfxstreamContext::submit_cmd on a restored context
SubmitCmdRestored ==
    \E c \in restored, len \in Lens, ret \in Rets :
        /\ Step("submit_cmd", [ctx_id |-> c, len |-> len], submit_cmd(c, len, ret))
        /\ UNCHANGED adapter

\* Snapshot and restore of contexts
NextSnapshot ==
    \/ CreateContext
    \/ DropContext
    \/ ContextSnapshot
    \/ RestoreContext
    \/ DropRestored
    \/ SubmitCmdRestored

SpecSnapshot == Init /\ [][NextSnapshot]_vars

\* What the backend answers to the follow-up queries of create_blob here:
\* all three succeed, or all three fail
BlobQueryExtremes ==
    {q \in BlobQueryAnswers :
        /\ q.map_info = RUTABAGA_MAP_CACHE_CACHED
        /\ q.export_ret = q.map_info_ret
        /\ q.map_info_ret = q.vulkan_info_ret}

Iovecs == <<[base |-> 4096, len |-> 16384]>>

\* State the resource actions leave alone
rest == <<unstable, contexts, created, pending, handlerCalls, restored, inflight,
          instances>>

\* create_3d for an id not in use; the caller keeps the resource returned
ResourceCreate3D ==
    \E r \in ResourceIds \ ResourceIdsOf(resources), ret \in Rets :
        LET out == create_3d(r, [target |-> 2, width |-> 64, height |-> 64], ret)
        IN  /\ Step("create_3d", [resource_id |-> r], out)
            /\ resources' = IF IsOk(out.res) THEN resources \cup {out.res.val}
                            ELSE resources
            /\ UNCHANGED <<rest, attached>>

\* create_blob for an id not in use, with or without guest pages
ResourceCreateBlob ==
    \E r \in ResourceIds \ ResourceIdsOf(resources), rcb \in ResourceCreateBlobs,
       iovec_opt \in {None, Some(Iovecs)}, ret \in Rets, q \in BlobQueryExtremes :
        LET out == create_blob(0, r, rcb, iovec_opt, None, ret, q)
        IN  /\ Step("create_blob",
                    [resource_id |-> r, resource_create_blob |-> rcb,
                     iovec_opt |-> iovec_opt, reported_map_info |-> q.map_info],
                    out)
            /\ resources' = IF IsOk(out.res) THEN resources \cup {out.res.val}
                            ELSE resources
            /\ UNCHANGED <<rest, attached>>

\* attach_backing on a live resource; on success the caller records the pages
ResourceAttachBacking ==
    \E res \in resources, ret \in Rets :
        LET out == attach_backing(res.resource_id, Iovecs, ret)
        IN  /\ Step("attach_backing", [resource_id |-> res.resource_id, before |-> res], out)
            /\ resources' =
                   IF IsOk(out.res)
                   THEN (resources \ {res}) \cup {with_backing(res, Iovecs)}
                   ELSE resources
            /\ UNCHANGED <<rest, attached>>

\* detach_backing on a live resource; the caller forgets the pages.  The
\* action notes the resource as it was before the attach_backing that came
\* right before it, if one did.
ResourceDetachBacking ==
    \E res \in resources :
        LET out == detach_backing(res.resource_id)
            before_attach ==
                IF op.name = "attach_backing" /\ op.arg.resource_id = res.resource_id
                THEN Some(op.arg.before) ELSE None
        IN  /\ Step("detach_backing",
                    [resource_id |-> res.resource_id, had_backing |-> res.backing_iovecs.some,
                     before_attach |-> before_attach],
                    out)
            /\ resources' =
                   IF IsOk(out.res)
                   THEN (resources \ {res}) \cup {without_backing(res)}
                   ELSE resources
            /\ UNCHANGED <<rest, attached>>

\* import for an id not in use; the caller keeps the resource if one is
\* returned
ResourceImport ==
    /\ unstable
    /\ \E r \in ResourceIds \ ResourceIdsOf(resources), flags \in ImportFlagWords,
          ret \in Rets :
        LET data == [flags |-> flags,
                     info_3d |-> [width |-> 64, height |-> 64, drm_fourcc |-> 875713112]]
            out == import(r, [os_handle |-> 9, handle_type |-> 2], data, ret)
        IN  /\ Step("import", [resource_id |-> r, import_data |-> data], out)
            /\ resources' = IF IsOk(out.res) /\ out.res.val.some
                            THEN resources \cup {out.res.val.v}
                            ELSE resources
            /\ UNCHANGED <<rest, attached>>

\* unref_resource on a live resource
ResourceUnref ==
    \E res \in resources :
        LET out == unref_resource(res.resource_id)
        IN  /\ Step("unref_resource", [resource_id |-> res.resource_id], out)
            /\ resources' = AfterUnrefs(resources, out.calls)
            /\ attached' = AttachedAfter(attached, out.calls)
            /\ UNCHANGED rest

\* Export of the handle of a live resource
ResourceExport ==
    \E res \in resources :
        /\ Step("export", [resource |-> res], export_handle(res))
        /\ UNCHANGED adapter

\* GfxstreamContext::attach and ::detach of a live resource
ContextAttach ==
    \E c \in contexts, res \in resources :
        LET out == context_attach(c, res)
        IN  /\ Step("context_attach", [ctx_id |-> c, resource_id |-> res.resource_id], out)
            /\ resources' = AfterUnrefs(resources, out.calls)
            /\ attached' = AttachedAfter(attached, out.calls)
            /\ UNCHANGED rest

ContextDetach ==
    \E c \in contexts, res \in resources :
        LET out == context_detach(c, res)
        IN  /\ Step("context_detach", [ctx_id |-> c, resource_id |-> res.resource_id], out)
            /\ resources' = AfterUnrefs(resources, out.calls)
            /\ attached' = AttachedAfter(attached, out.calls)
            /\ UNCHANGED rest

\* The device thread enters context_create_fence: the backend is called and
\* holds the fence from now on, while the operation has not returned yet
BeginContextCreateFence ==
    /\ DeviceIdle
    /\ ~ Aborted
    /\ Len(created) < MaxFences
    /\ \E c \in contexts, flags \in FenceFlagWords, ring \in {0, 1},
          create_ret \in {0, -22}, export_ret \in {0, -22} :
        LET fence == [flags |-> flags, fence_id |-> Len(created) + 1,
                      ctx_id |-> c, ring_idx |-> ring]
            out == context_create_fence(fence, create_ret, export_ret, StreamHandle)
        IN  /\ inflight' = Some([name |-> "context_create_fence",
                                 arg |-> [fence |-> fence], out |-> out])
            /\ FenceEffects("context_create_fence", fence, out)
            /\ UNCHANGED <<unstable, instances, op, contexts, restored, resources, attached>>

\* The device thread enters Gfxstream::create_fence
BeginCreateFence ==
    /\ DeviceIdle
    /\ ~ Aborted
    /\ Len(created) < MaxFences
    /\ \E flags \in {RUTABAGA_FLAG_FENCE}, ring \in {0}, ret \in {0, -22} :
        LET fence == [flags |-> flags, fence_id |-> Len(created) + 1,
                      ctx_id |-> 0, ring_idx |-> ring]
            out == create_fence(fence, ret)
        IN  /\ inflight' = Some([name |-> "create_fence",
                                 arg |-> [fence |-> fence], out |-> out])
            /\ FenceEffects("create_fence", fence, out)
            /\ UNCHANGED <<unstable, instances, op, contexts, restored, resources, attached>>

\* The device thread enters submit_cmd
BeginSubmitCmd ==
    /\ DeviceIdle
    /\ ~ Aborted
    /\ \E c \in contexts, len \in {USize(0, 4), USize(0, 6)}, ret \in {0} :
        /\ inflight' = Some([name |-> "submit_cmd", arg |-> [ctx_id |-> c, len |-> len],
                             out |-> submit_cmd(c, len, ret)])
        /\ UNCHANGED <<unstable, instances, op, contexts, created, pending, handlerCalls,
                       restored, resources, attached>>

\* The operation the device thread is inside returns
EndOperation ==
    /\ inflight.some
    /\ Step(inflight.v.name, inflight.v.arg, inflight.v.out)
    /\ inflight' = None
    /\ UNCHANGED <<unstable, instances, contexts, created, pending, handlerCalls,
                   restored, resources, attached>>

\* The device thread and the backend's thread side by side: the backend
\* enters write_context_fence whenever it holds a fence
NextThreads ==
    \/ CreateContext
    \/ BeginContextCreateFence
    \/ BeginCreateFence
    \/ BeginSubmitCmd
    \/ EndOperation
    \/ BackendFenceCallback

SpecThreads == Init /\ [][NextThreads]_vars

\* The cookie pointer a callback is entered with: null, or the cookie of
\* init, whose handlers return or panic in this call
Cookies ==
    {[null |-> TRUE, fence_handler |-> None, debug_handler |-> None]}
        \cup [null : {FALSE}, fence_handler : {Some(Returns), Some(Panics)},
              debug_handler : {None, Some(Returns), Some(Panics)}]

DebugMessages ==
    [debug_type : {RUTABAGA_DEBUG_ERROR, RUTABAGA_DEBUG_INFO}, message : {"lost device"}]

\* The backend enters the fence callback for a fence it holds
FenceCallback ==
    \E id \in pending, cookie \in Cookies :
        LET out == write_context_fence(cookie, created[id].fence)
        IN  /\ Step("write_context_fence", [fence |-> created[id].fence, cookie |-> cookie],
                    out)
            /\ handlerCalls' = handlerCalls \o
                   [i \in 1..Len(out.handled) |->
                        [fence |-> out.handled[i], by |-> "write_context_fence"]]
            /\ pending' = pending \ {id}
            /\ UNCHANGED <<unstable, contexts, created, others>>

\* The backend enters the debug callback with a message
DebugCallback ==
    \E debug \in DebugMessages, cookie \in Cookies :
        /\ Step("gfxstream_debug_callback", [debug |-> debug, cookie |-> cookie],
                gfxstream_debug_callback(cookie, debug))
        /\ UNCHANGED adapter

\* Callbacks among the operations of the device thread
NextCallback ==
    \/ CreateContext
    \/ ContextCreateFence
    \/ CreateFence
    \/ FenceCallback
    \/ DebugCallback

SpecCallback == Init /\ [][NextCallback]_vars

\* The life of resources and contexts
NextResource ==
    \/ CreateContext
    \/ DropContext
    \/ ContextAttach
    \/ ContextDetach
    \/ ResourceCreate3D
    \/ ResourceCreateBlob
    \/ ResourceImport
    \/ ResourceAttachBacking
    \/ ResourceDetachBacking
    \/ ResourceUnref
    \/ ResourceExport

SpecResource == Init /\ [][NextResource]_vars

\* The fence protocol: contexts, fence creation and fence completion
NextFence ==
    \/ CreateContext
    \/ DropContext
    \/ ContextCreateFence
    \/ CreateFence
    \/ BackendFenceCallback

SpecFence == Init /\ [][NextFence]_vars

\* The operations of the component and of its contexts whose outcome depends
\* on their inputs and on the backend's answers alone
Next ==
    \/ CreateContext
    \/ DropContext
    \/ SubmitCmd
    \/ TransferWrite
    \/ TransferRead
    \/ Create3D
    \/ CreateBlob
    \/ Import
    \/ AttachBacking
    \/ DetachBacking
    \/ UnrefResource
    \/ ResourceFlush
    \/ Map
    \/ Unmap
    \/ Suspend
    \/ Resume
    \/ Snapshot
    \/ Restore
    \/ GetCapsetInfo
    \/ GetCapset

Spec == Init /\ [][Next]_vars

----------------------------------------------------------------------------
\* Properties

\* The backend calls of the last operation made to function `fn`
CallsTo(fn) == {i \in 1..Len(op.calls) : op.calls[i].fn = fn}

IsTransfer == op.name \in {"transfer_write", "transfer_read"}

\* C1: a transfer_write or transfer_read whose region has w, h or d equal to 0
\* returns success and makes no backend call, whatever its other arguments.
C1_EmptyTransferIsNoop ==
    (IsTransfer /\ (op.arg.transfer.w = 0 \/ op.arg.transfer.h = 0 \/ op.arg.transfer.d = 0))
        => (op.res = Ok(Unit) /\ Len(op.calls) = 0)

C1_Witness ==
    /\ op.name = "transfer_read"
    /\ op.arg.transfer.w = 4 /\ op.arg.transfer.h = 0 /\ op.arg.transfer.d = 1
    /\ op.arg.transfer.offset = 64
    /\ op.arg.buf.some
    /\ op.res = Ok(Unit)
    /\ Len(op.calls) = 0

IsFenceCreation == op.name \in {"context_create_fence", "create_fence"}

\* C2, as claimed: at both fence-creation entry points a ring-1 fence has been
\* handed to the fence handler when the call returns, and a fence of any
\* other ring has not.
C2_Claimed ==
    IsFenceCreation =>
        IF op.arg.fence.ring_idx = 1
        THEN op.handled = <<op.arg.fence>>
        ELSE op.handled = <<>>

\* C2, amended: context_create_fence hands a ring-1 fence to the fence handler
\* before it returns and hands a fence of any other ring to nobody; the
\* component's create_fence never invokes a handler itself, whatever the ring.
C2_InlineOnlyForContextRing1 ==
    /\ op.name = "context_create_fence" =>
           IF op.arg.fence.ring_idx = 1
           THEN op.handled = <<op.arg.fence>>
           ELSE op.handled = <<>>
    /\ op.name = "create_fence" => op.handled = <<>>

C2_Witness ==
    /\ op.name = "context_create_fence"
    /\ op.arg.fence.ring_idx = 1
    /\ op.handled = <<op.arg.fence>>
    /\ Len(handlerCalls) = 1

\* The handler invocations that delivered fence `id`
DeliveriesOf(id) ==
    {i \in 1..Len(handlerCalls) : handlerCalls[i].fence.fence_id = id}

\* C3: every fence whose creation took effect is handed to a handler at most
\* once, and exactly once when the backend no longer holds it; every fence a
\* handler receives has the flags, fence_id, ctx_id and ring_idx of the fence
\* requested; a ring-1 context fence never comes through the backend callback.
C3_FenceDeliveredOnceUnchanged ==
    /\ \A i \in 1..Len(handlerCalls) :
           LET h == handlerCalls[i]
           IN  /\ h.fence.fence_id \in 1..Len(created)
               /\ h.fence = created[h.fence.fence_id].fence
               /\ h.by = "write_context_fence" =>
                      ~ (/\ created[h.fence.fence_id].by = "context_create_fence"
                         /\ h.fence.ring_idx = 1)
    /\ \A id \in 1..Len(created) :
           /\ Cardinality(DeliveriesOf(id)) <= 1
           /\ id \notin pending => Cardinality(DeliveriesOf(id)) = 1

C3_Witness ==
    /\ op.name = "write_context_fence"
    /\ Len(created) >= 1
    /\ created[1].fence.ring_idx = 2
    /\ pending = {}
    /\ Cardinality(DeliveriesOf(1)) = 1
    /\ handlerCalls[1].fence = created[1].fence

HostShareable(fence) == (fence.flags \cap RUTABAGA_FLAG_FENCE_HOST_SHAREABLE) # {}

\* The last operation was a context_create_fence of a host-shareable fence on
\* a ring other than 1 that the backend created and whose export failed
ExportFailedAfterCreation ==
    /\ op.name = "context_create_fence"
    /\ HostShareable(op.arg.fence)
    /\ op.arg.fence.ring_idx # 1
    /\ \E i \in CallsTo("stream_renderer_create_fence") : op.calls[i].ret = 0
    /\ \/ ~unstable
       \/ \E i \in CallsTo("stream_renderer_export_fence") : op.calls[i].ret # 0

\* C4, as claimed: when the backend created the fence and only the export of
\* its handle failed, the caller gets an outcome that no failed fence creation
\* produces.
C4_Claimed ==
    ExportFailedAfterCreation =>
        \A r \in Rets \ {0} : op.res # ret_to_res(r)

\* C5: context_create_fence calls stream_renderer_export_fence, and returns a
\* handle, only for a fence whose flags hold RUTABAGA_FLAG_FENCE_HOST_SHAREABLE;
\* for any other fence a success carries no handle and no export is attempted.
C5_ExportOnlyIfShareable ==
    op.name = "context_create_fence" =>
        /\ CallsTo("stream_renderer_export_fence") # {} => HostShareable(op.arg.fence)
        /\ (IsOk(op.res) /\ op.res.val.some) => HostShareable(op.arg.fence)
        /\ ~HostShareable(op.arg.fence) =>
               /\ IsOk(op.res) => op.res.val = None
               /\ ~IsErrKind(op.res, "Unsupported")

C5_Witness ==
    /\ op.name = "context_create_fence"
    /\ ~HostShareable(op.arg.fence)
    /\ op.arg.fence.ring_idx = 0
    /\ op.res = Ok(None)
    /\ Len(op.calls) = 1
    /\ pending = {op.arg.fence.fence_id}

\* The last operation forwarded its buffer to the backend exactly once, under
\* the ctx_id of the context it was invoked on
ForwardedOnce ==
    /\ Len(op.calls) = 1
    /\ op.calls[1].fn = "stream_renderer_submit_cmd"
    /\ op.calls[1].args.ctx_id = op.arg.ctx_id
    /\ op.calls[1].args.cmd_size = op.arg.len

\* The last operation was refused for its buffer length, without a backend call
RefusedForSize ==
    /\ op.res = Err(InvalidCommandSize(op.arg.len))
    /\ Len(op.calls) = 0

\* C6, as claimed: submit_cmd refuses a buffer whose length is not a multiple
\* of 4 with InvalidCommandSize(length) and no backend call, and forwards any
\* buffer whose length is a multiple of 4 exactly once under its own ctx_id.
C6_Claimed ==
    op.name = "submit_cmd" =>
        IF USizeRem(op.arg.len, 4) # 0 THEN RefusedForSize ELSE ForwardedOnce

\* C6, amended: as claimed for lengths below 2^32; a buffer whose length is a
\* multiple of 4 and does not fit in 32 bits is refused with a
\* TryFromIntError and no backend call.
C6_SubmitCmdSizeCheck ==
    op.name = "submit_cmd" =>
        IF USizeRem(op.arg.len, 4) # 0 THEN RefusedForSize
        ELSE IF FitsU32(op.arg.len) THEN ForwardedOnce
        ELSE op.res = Err(TryFromIntError) /\ Len(op.calls) = 0

C6_Witness ==
    /\ op.name = "submit_cmd"
    /\ op.arg.len = USize(65536, 0)
    /\ op.arg.ctx_id = 5
    /\ op.res = Err(TryFromIntError)
    /\ Len(op.calls) = 0

BlobQueries ==
    {"stream_renderer_export_blob", "stream_renderer_resource_map_info",
     "stream_renderer_vulkan_info"}

BlobFieldOf(fn, resource) ==
    CASE fn = "stream_renderer_export_blob" -> resource.handle
      [] fn = "stream_renderer_resource_map_info" -> resource.map_info
      [] fn = "stream_renderer_vulkan_info" -> resource.vulkan_info

C8_Claimed ==
    (op.name = "create_blob" /\ IsOk(op.res) /\ op.res.val.map_info.some)
        => op.res.val.map_info.v = op.arg.reported_map_info

\* C8, amended: the map_info of a created blob is the flag word the backend
\* reported with both access bits of RUTABAGA_MAP_ACCESS_RW set; every other
\* bit, the cache type among them, is as the backend reported it.
C8_MapInfoIsReportedPlusRW ==
    (op.name = "create_blob" /\ IsOk(op.res) /\ op.res.val.map_info.some)
        => /\ op.res.val.map_info.v = op.arg.reported_map_info \cup {4, 5}
           /\ op.res.val.map_info.v \ {4, 5} = op.arg.reported_map_info \ {4, 5}

C8_Witness ==
    /\ op.name = "create_blob"
    /\ IsOk(op.res)
    /\ op.arg.reported_map_info = {0}
    /\ op.res.val.map_info = Some({0, 4, 5})

\* C9, as claimed: an import whose flags hold both 3D_INFO and VULKAN_INFO
\* returns an error to the caller and makes no backend call.
C9_Claimed ==
    (op.name = "import" /\ {0, 1} \subseteq op.arg.import_data.flags)
        => (IsErr(op.res) /\ Len(op.calls) = 0)

ImportSucceeded ==
    /\ op.name = "import"
    /\ \E i \in CallsTo("stream_renderer_import_resource") : op.calls[i].ret = 0

ImportFailed ==
    /\ op.name = "import"
    /\ \E i \in CallsTo("stream_renderer_import_resource") : op.calls[i].ret # 0

\* C10: an import the backend accepted returns no Resource when RESOURCE_EXISTS
\* is set, and otherwise one non-blob Resource with the requested id and no
\* handle, backing or mapping; an import the backend refused returns none.
C10_ImportResult ==
    /\ ImportSucceeded =>
           IF 30 \in op.arg.import_data.flags
           THEN op.res = Ok(None)
           ELSE /\ IsOk(op.res) /\ op.res.val.some
                /\ op.res.val.v.resource_id = op.arg.resource_id
                /\ op.res.val.v.blob = FALSE
                /\ op.res.val.v.handle = None
                /\ op.res.val.v.backing_iovecs = None
                /\ op.res.val.v.mapping = None
    /\ ImportFailed => ~IsOk(op.res)

C10_Witness ==
    /\ ImportSucceeded
    /\ op.arg.import_data.flags = {0, 30}
    /\ op.arg.resource_id = 8
    /\ op.res = Ok(None)

\* C11: the bytes snapshot() returns for a context with ctx_id c restore to a
\* context with ctx_id c, and taking them leaves the context as it was;
\* restore_context on the bytes just taken yields ctx_id c; a well-sized
\* submit_cmd on a restored context is forwarded once under its ctx_id.
C11_SnapshotRestoreRoundTrip ==
    /\ op.name = "context_snapshot" =>
           /\ IsOk(op.res) /\ Len(op.calls) = 0
           /\ op.arg.ctx_id \in contexts \cup restored
           /\ restore_context(op.res.val).res = Ok([ctx_id |-> op.arg.ctx_id])
    /\ (op.name = "restore_context" /\ op.arg.taken_from.some) =>
           /\ op.res = Ok([ctx_id |-> op.arg.taken_from.v])
           /\ op.arg.taken_from.v \in restored
    /\ (op.name = "submit_cmd" /\ USizeRem(op.arg.len, 4) = 0 /\ FitsU32(op.arg.len)) =>
           /\ op.arg.ctx_id \in restored
           /\ ForwardedOnce

C11_Witness ==
    /\ op.name = "restore_context"
    /\ op.arg.taken_from = Some(5)
    /\ op.arg.snapshot = to_writer([ctx_id |-> 5])
    /\ op.res = Ok([ctx_id |-> 5])
    /\ restored = {5, 2147483647}
    /\ 5 \in contexts

\* C12, as claimed: restore_context on bytes that do not parse returns an
\* error of the SnapshotError kind, creates no context and calls no backend.
C12_Claimed ==
    (op.name = "restore_context" /\ ~from_reader(op.arg.snapshot).ok) =>
        /\ IsErr(op.res) /\ op.res.err.kind = "SnapshotError"
        /\ Len(op.calls) = 0

\* C13: dropping a context issues stream_renderer_context_destroy for its
\* ctx_id and nothing else: no stream_renderer_resource_unref is among the
\* calls of the drop, and every resource that was live before it is live
\* after it, whatever was attached to or detached from the context before
C13_DropKeepsResources ==
    /\ [](op.name = "drop_context" =>
            /\ op.calls = <<Call("stream_renderer_context_destroy",
                                  [handle |-> op.arg.ctx_id], 0)>>
            /\ \A i \in 1..Len(op.calls) :
                   op.calls[i].fn # "stream_renderer_resource_unref")
    /\ [][op'.name = "drop_context" /\ op' # op => resources' = resources]_vars

\* A context with both live resources attached to it was dropped
C13_Witness ==
    /\ op.name = "drop_context"
    /\ Cardinality(resources) = 2
    /\ op.arg.had_attached = ResourceIdsOf(resources)
    /\ op.arg.ctx_id \notin contexts

\* A callback in which the closure panics: the cookie is null, or the
\* handler the callback calls panics
PanicsInside(o) ==
    \/ o.arg.cookie.null
    \/ o.name = "write_context_fence"
       /\ o.arg.cookie.fence_handler = Some(Panics)
    \/ o.name = "gfxstream_debug_callback"
       /\ o.arg.cookie.debug_handler = Some(Panics)

IsCallback(o) == o.name \in {"write_context_fence", "gfxstream_debug_callback"}

\* C14: in the fence callback and in the debug callback a panic inside
\* the callback (null cookie, panicking handler) ends in abort, never in a
\* return or an unwind into the backend; a callback without a panic
\* returns; and once the process has aborted no callback and no adapter
\* operation runs
C14_PanicAborts ==
    /\ [](IsCallback(op) /\ "cookie" \in DOMAIN op.arg =>
            IF PanicsInside(op) THEN op.res = Abort /\ op.handled = <<>>
            ELSE op.res = Ok(Unit))
    /\ [][~ Aborted]_vars

\* The debug callback aborted on a panicking debug handler while a fence
\* was still pending
C14_Witness ==
    /\ op.name = "gfxstream_debug_callback"
    /\ ~ op.arg.cookie.null
    /\ op.arg.cookie.debug_handler = Some(Panics)
    /\ op.res = Abort
    /\ pending # {}

\* The fence callback of the last step delivered its fence to the handler
\* and returned
CallbackDelivered ==
    /\ op.res = Ok(Unit)
    /\ op.handled = <<op.arg.fence>>
    /\ \E i \in 1..Len(handlerCalls) :
           handlerCalls[i] = [fence |-> op.arg.fence, by |-> "write_context_fence"]
    /\ op.arg.fence.fence_id \notin pending

\* C15: the fence callback can run whenever the backend holds a fence,
\* whether or not the device thread is inside an adapter operation, and a
\* callback that ran has delivered its fence to the handler and returned;
\* a fence the backend accepted is either still held by the backend or was
\* delivered by the callback exactly once
C15_CallbackNeverWaits ==
    /\ pending # {} => ENABLED BackendFenceCallback
    /\ op.name = "write_context_fence" => CallbackDelivered
    /\ \A id \in 1..Len(created) :
           LET deliveries == {i \in 1..Len(handlerCalls) :
                                /\ handlerCalls[i].by = "write_context_fence"
                                /\ handlerCalls[i].fence = created[id].fence}
           IN  Cardinality(deliveries) <= 1
               /\ (id \in pending => deliveries = {})

\* The callback for a fence ran while the device thread was still inside the
\* context_create_fence that created this fence
C15_Witness ==
    /\ inflight.some
    /\ inflight.v.name = "context_create_fence"
    /\ op.name = "write_context_fence"
    /\ op.arg.fence = inflight.v.arg.fence
    /\ CallbackDelivered

\* The live resource with this id
ResourceOf(resource_id) == CHOOSE r \in resources : r.resource_id = resource_id

C18_Claimed ==
    (op.name = "detach_backing" /\ op.arg.before_attach.some) =>
        LET before == op.arg.before_attach.v
            after == ResourceOf(op.arg.resource_id)
        IN  /\ after.backing_iovecs = before.backing_iovecs
            /\ after.mapping = before.mapping
            /\ after.map_info = before.map_info

\* C19: a resource made by create_3d is not a blob and carries no handle,
\* attach_backing and detach_backing give it none, and an export of the
\* handle of a live non-blob resource returns an error of the
\* invalid-handle or unsupported kind, not a handle and not a panic
C19_NonBlobExportFails ==
    /\ (op.name = "create_3d" /\ IsOk(op.res)) =>
           ~ op.res.val.blob /\ op.res.val.handle = None
    /\ \A r \in resources : ~ r.blob => r.handle = None
    /\ (op.name = "export" /\ ~ op.arg.resource.blob) =>
           /\ IsErr(op.res)
           /\ op.res.err \in {InvalidRutabagaHandle, Unsupported}

\* The handle of a create_3d resource was asked for while a blob with a
\* handle was live as well
C19_Witness ==
    /\ op.name = "export"
    /\ ~ op.arg.resource.blob
    /\ op.arg.resource \in resources
    /\ op.res = Err(InvalidRutabagaHandle)
    /\ \E b \in resources : b.blob /\ b.handle.some

\* C20: for every capset id and version, the buffer get_capset returns is
\* as long as the max_size get_capset_info returns for the same id, the
\* backend answering both the same; get_capset asks the backend for the
\* size under this very id before it has the buffer filled
C20_CapsetLength ==
    /\ op.name = "get_capset_info" =>
           op.res = Ok(<<IF op.arg.answer.some THEN op.arg.answer.v.max_ver ELSE 0,
                         IF op.arg.answer.some THEN op.arg.answer.v.max_size ELSE 0>>)
    /\ op.name = "get_capset" =>
           /\ IsOk(op.res)
           /\ Len(op.res.val) =
                  get_capset_info(op.arg.capset_id, op.arg.answer).res.val[2]
           /\ op.calls = <<Call("stream_renderer_get_cap_set",
                                 [set |-> op.arg.capset_id], 0),
                            Call("stream_renderer_fill_caps",
                                 [set |-> op.arg.capset_id,
                                  version |-> op.arg.version], 0)>>

\* get_capset(5, 1) returned 20 bytes for a backend reporting max_size 20
C20_Witness ==
    /\ op.name = "get_capset"
    /\ op.arg.capset_id = RUTABAGA_CAPSET_CROSS_DOMAIN
    /\ op.arg.version = 1
    /\ op.arg.answer = Some([max_ver |-> 2, max_size |-> 20])
    /\ Len(op.res.val) = 20
    /\ op.res.val[20] = 255

\* Positions of the RutabagaErrorKind layers of a chain
KindLayers(chain) == {i \in 1..Len(chain) : chain[i].is_kind}

\* C21: a chain with a RutabagaErrorKind in it converts to an error of the
\* kind of its top-most kind layer, wherever plain layers stand, which for
\* a chain with one kind is that kind; a bare kind converts to an error of
\* that kind with no context
C21_KindOfChainKept ==
    /\ (op.name = "from_anyhow" /\ KindLayers(op.arg.chain) # {}) =>
           \E i \in KindLayers(op.arg.chain) :
               /\ \A j \in 1..(i - 1) : ~ op.arg.chain[j].is_kind
               /\ op.res.err.kind = op.arg.chain[i].kind
    /\ op.name = "from_kind" =>
           op.res.err.kind = op.arg.kind /\ op.res.err.context = None

\* A chain with InvalidIovec added first and InvalidComponent added on top
\* of it, under a plain context, converted to InvalidComponent
C21_Witness ==
    /\ op.name = "from_anyhow"
    /\ op.arg.chain = <<OtherLayer("context"), KindLayer(InvalidComponent),
                         KindLayer(InvalidIovec)>>
    /\ op.res.err.kind = InvalidComponent

\* C22: a chain without any RutabagaErrorKind converts to an error of kind
\* Internal whose context is the chain itself
C22_NoKindIsInternal ==
    (op.name = "from_anyhow" /\ KindLayers(op.arg.chain) = {}) =>
        /\ op.res.err.kind = Internal
        /\ op.res.err.context = Some(op.arg.chain)

\* anyhow!("test error") with a plain context converted to Internal
C22_Witness ==
    /\ op.name = "from_anyhow"
    /\ op.arg.chain = <<OtherLayer("context"), OtherLayer("test error")>>
    /\ op.res.err = RutabagaError(Internal, Some(op.arg.chain))

\* The access bits of a map_info word are exactly READ, WRITE or READ|WRITE
AccessValid(info) ==
    (info \cap RUTABAGA_MAP_ACCESS_MASK)
        \in {RUTABAGA_MAP_ACCESS_READ, RUTABAGA_MAP_ACCESS_WRITE, RUTABAGA_MAP_ACCESS_RW}

\* C23: from_safe_descriptor returns a mapping only for a non-zero size
\* and access bits that are READ, WRITE or READ|WRITE, and the mapping has
\* the size asked for; a zero size, or any other access bits, none
\* included, is refused with a SpecViolation error before mmap is called;
\* for a non-zero size and valid access bits the result is mmap's
C23_MappingOnlyForValidRequest ==
    op.name = "from_safe_descriptor" =>
        /\ IsOk(op.res) =>
               /\ op.arg.size # USize(0, 0)
               /\ AccessValid(op.arg.map_info)
               /\ op.res.val.size = op.arg.size
        /\ (op.arg.size = USize(0, 0) \/ ~ AccessValid(op.arg.map_info)) =>
               /\ IsErr(op.res)
               /\ op.res.err.kind = "SpecViolation"
               /\ op.calls = <<>>
        /\ (op.arg.size # USize(0, 0) /\ AccessValid(op.arg.map_info)) =>
               /\ Len(op.calls) = 1
               /\ IsOk(op.res) = IsOk(op.calls[1].ret)

\* A zero-size request with READ|WRITE access and a cache bit was refused
C23_Witness ==
    /\ op.name = "from_safe_descriptor"
    /\ op.arg.size = USize(0, 0)
    /\ op.arg.map_info = RUTABAGA_MAP_ACCESS_RW \cup RUTABAGA_MAP_CACHE_CACHED
    /\ op.res = Err(SpecViolation("zero size mapping"))

\* The resource values the last operation returned
Produced ==
    IF op.name \in {"create_3d", "create_blob"} /\ IsOk(op.res) THEN {op.res.val}
    ELSE IF op.name = "import" /\ IsOk(op.res) /\ op.res.val.some THEN {op.res.val.v}
    ELSE {}

\* C24: a resource returned by create_3d, create_blob or import has the id
\* of the request and a component mask of one bit, the bit of the gfxstream
\* component, and so has every resource held from such a call
C24_OneOwner ==
    /\ \A res \in Produced :
           /\ res.resource_id = op.arg.resource_id
           /\ res.component_mask = {RutabagaComponentType_Gfxstream}
    /\ \A res \in resources :
           Cardinality(res.component_mask) = 1
               /\ RutabagaComponentType_Gfxstream \in res.component_mask

\* create_blob returned a blob with a handle and no backing list while a
\* blob with a backing list and no handle was live
C24_Witness ==
    /\ op.name = "create_blob"
    /\ \E b \in Produced : b.blob /\ b.handle.some /\ ~ b.backing_iovecs.some
    /\ Produced \subseteq resources
    /\ \E a \in resources : a.blob /\ a.backing_iovecs.some /\ ~ a.handle.some

\* C25: stream_renderer_teardown is called at most once for a Gfxstream
\* that init returned and never for an init that failed or panicked, whose
\* only backend call is stream_renderer_init; the cookie of a Gfxstream is
\* freed only after its teardown was called, and a callback entered between
\* an init and the next teardown finds the cookie alive
C25_TeardownOncePerInit ==
    /\ \A i \in 1..Len(instances) :
           LET inst == instances[i]
           IN  /\ inst.teardowns <= 1
               /\ ~ inst.ok => inst.teardowns = 0 /\ ~ inst.dropped
               /\ (inst.ok /\ inst.cookie = "freed") => inst.teardowns = 1
    /\ (op.name = "init" /\ ~ IsOk(op.res)) =>
           \A k \in 1..Len(op.calls) : op.calls[k].fn = "stream_renderer_init"
    /\ (op.name \in {"write_context_fence", "gfxstream_debug_callback"}
           /\ "cookie_state" \in DOMAIN op.arg) =>
           op.arg.cookie_state = "alive"

\* The first Gfxstream was dropped to the end, after an init that failed
\* came second
C25_Witness ==
    /\ Len(instances) = 2
    /\ instances[1].ok
    /\ instances[1].teardowns = 1
    /\ instances[1].cookie = "freed"
    /\ ~ instances[2].ok
    /\ op.name = "drop_gfxstream"
    /\ op.arg.event = "drop_cookie"

\* The operation `o` is a create operation whose backend call was rejected
RejectedCreate(o) ==
    /\ o.name \in {"create_3d", "create_blob", "import", "create_context"}
    /\ Len(o.calls) > 0
    /\ o.calls[1].fn \in {"stream_renderer_resource_create", "stream_renderer_create_blob",
                           "stream_renderer_import_resource",
                           "stream_renderer_context_create"}
    /\ o.calls[1].ret # 0

\* C26: when the backend rejects create_3d, create_blob, import or
\* create_context, the operation returns an error and no value, makes no
\* other backend call, the id of the request is afterwards neither a live
\* resource nor a live context on account of it, and the resources,
\* contexts and attachments that existed are as they were
C26_FailedCreateLeavesNothing ==
    /\ [](RejectedCreate(op) =>
            /\ IsErr(op.res)
            /\ Len(op.calls) = 1
            /\ op.name = "create_context" => op.arg.ctx_id \notin contexts
            /\ op.name # "create_context" =>
                   op.arg.resource_id \notin ResourceIdsOf(resources))
    /\ [][RejectedCreate(op') /\ op' # op =>
             /\ resources' = resources
             /\ contexts' = contexts
             /\ attached' = attached]_vars

\* The backend rejected a create_blob while a context and another resource,
\* attached to it, were live
C26_Witness ==
    /\ op.name = "create_blob"
    /\ RejectedCreate(op)
    /\ op.res = Err(ComponentError(-22))
    /\ Cardinality(resources) = 1
    /\ attached # {}

\* C27: a context fence on ring index 1 is completed inside the adapter:
\* context_create_fence makes no backend call for it, returns success with no
\* handle whether or not the host-shareable flag is set, invokes the
\* context's handler exactly once with that fence, and leaves nothing pending
\* at the backend
C27_Ring1CompletedInAdapter ==
    /\ []((op.name = "context_create_fence" /\ op.arg.fence.ring_idx = 1) =>
            /\ op.calls = <<>>
            /\ op.res = Ok(None)
            /\ op.handled = <<op.arg.fence>>
            /\ op.arg.fence.fence_id \notin pending)
    /\ [][(op'.name = "context_create_fence" /\ op'.arg.fence.ring_idx = 1 /\ op' # op) =>
             /\ handlerCalls' =
                    Append(handlerCalls,
                           [fence |-> op'.arg.fence, by |-> "context_create_fence"])
             /\ pending' = pending]_vars

\* A host-shareable ring-1 context fence was completed without a backend call
C27_Witness ==
    /\ op.name = "context_create_fence"
    /\ op.arg.fence.ring_idx = 1
    /\ HostShareable(op.arg.fence)
    /\ op.res = Ok(None)
    /\ op.calls = <<>>
    /\ Cardinality(DeliveriesOf(op.arg.fence.fence_id)) = 1

\* The statuses the backend gave to the calls of `fn` in the last operation
StatusesOf(fn) == {op.calls[i].ret : i \in CallsTo(fn)}

\* C28: create_blob succeeds exactly when stream_renderer_create_blob
\* returns zero; after that each of the export, map-info and Vulkan-info
\* queries is made once, and its field of the resource is absent when the
\* query failed and present when it succeeded; the resource is a blob with the
\* requested blob_mem, blob_flags and size, the supplied backing list and no
\* mapping
C28_CreateBlobOutcome ==
    op.name = "create_blob" =>
        /\ Len(op.calls) >= 1
        /\ op.calls[1].fn = "stream_renderer_create_blob"
        /\ IsOk(op.res) <=> op.calls[1].ret = 0
        /\ IsOk(op.res) =>
               LET res == op.res.val
                   request == op.arg.resource_create_blob
               IN  /\ Len(op.calls) = 4
                   /\ res.handle.some <=> StatusesOf("stream_renderer_export_blob") = {0}
                   /\ res.map_info.some <=>
                          StatusesOf("stream_renderer_resource_map_info") = {0}
                   /\ res.vulkan_info.some <=>
                          StatusesOf("stream_renderer_vulkan_info") = {0}
                   /\ res.blob
                   /\ res.resource_id = op.arg.resource_id
                   /\ res.blob_mem = request.blob_mem
                   /\ res.blob_flags = request.blob_flags
                   /\ res.size = request.size
                   /\ res.backing_iovecs = op.arg.iovec_opt
                   /\ res.mapping = None

\* A guest-memory blob of 4096 bytes with a backing list was created although
\* its export and its map-info query failed
C28_Witness ==
    /\ op.name = "create_blob"
    /\ IsOk(op.res)
    /\ op.arg.resource_create_blob.blob_mem = RUTABAGA_BLOB_MEM_GUEST
    /\ op.arg.resource_create_blob.size = 4096
    /\ op.arg.iovec_opt.some
    /\ StatusesOf("stream_renderer_export_blob") = {-22}
    /\ StatusesOf("stream_renderer_resource_map_info") = {-22}
    /\ op.res.val.handle = None
    /\ op.res.val.map_info = None
    /\ op.res.val.vulkan_info.some
    /\ op.res.val.size = 4096

\* The context values with id `id` that the caller holds: at most one from
\* create_context and at most one from restore_context
LiveContextValues(id) ==
    (IF id \in contexts THEN 1 ELSE 0) + (IF id \in restored THEN 1 ELSE 0)

\* The stream_renderer_context_destroy calls operation `o` issued for `id`
DestroysOf(o, id) ==
    Cardinality({i \in 1..Len(o.calls) :
                    /\ o.calls[i].fn = "stream_renderer_context_destroy"
                    /\ o.calls[i].args.handle = id})

\* 1 when operation `o` handed a new context value with id `id` to the caller
ContextValuesFrom(o, id) ==
    IF /\ o.name \in {"create_context", "restore_context"}
       /\ IsOk(o.res)
       /\ o.res.val.ctx_id = id
    THEN 1 ELSE 0

\* C29: a step issues stream_renderer_context_destroy for an id only as the
\* drop of one live context value of that id, and then once; a context value
\* comes to life only by a successful create_context or restore_context.  So
\* the live values of an id are its successful creates and restores less its
\* destroys, and the destroys never exceed the creates plus restores.
C29_DestroyOncePerDroppedContext ==
    [][\A id \in contexts \cup restored \cup contexts' \cup restored' \cup CtxIds :
          /\ DestroysOf(op', id) <= LiveContextValues(id)
          /\ DestroysOf(op', id) > 0 =>
                 /\ op'.name = "drop_context"
                 /\ op'.arg.ctx_id = id
                 /\ DestroysOf(op', id) = 1
          /\ op'.name = "drop_context" /\ op'.arg.ctx_id = id =>
                 DestroysOf(op', id) = 1
          /\ LiveContextValues(id)' =
                 LiveContextValues(id) + ContextValuesFrom(op', id) - DestroysOf(op', id)
      ]_vars

\* Of a created and a restored context with one id, the restored one was
\* dropped and the created one is still held
C29_Witness ==
    /\ op.name = "drop_context"
    /\ DestroysOf(op, op.arg.ctx_id) = 1
    /\ op.arg.ctx_id \in contexts
    /\ op.arg.ctx_id \notin restored

\* C30, as claimed: with an initrd given the chosen node has
\* linux,initrd-start equal to the initrd guest address and linux,initrd-end
\* equal to that address plus the initrd size, whatever their magnitude; with
\* none given the node has neither property.
C30_Claimed ==
    op.name = "create_chosen_node" =>
        /\ IsOk(op.res)
        /\ IF op.arg.initrd.some
           THEN /\ DOMAIN op.res.val = {"linux,initrd-start", "linux,initrd-end"}
                /\ op.res.val["linux,initrd-start"] = op.arg.initrd.v.addr
                /\ op.res.val["linux,initrd-end"] =
                       WideAdd(op.arg.initrd.v.addr, op.arg.initrd.v.size)
           ELSE DOMAIN op.res.val = {}

====
